---- MODULE Spec2Model ----
(***************************************************************************)
(* VibeTrack: the layered authorization model (role catalogs, the          *)
(* process-wide override store, the permission evaluators), the space      *)
(* operations of the project store that those evaluators gate, and the     *)
(* tables behind them: invites and memberships, the six-digit codes and    *)
(* the team members, the audit tables, issues and sprints, organizations   *)
(* and their owners, and the api service without a configured client.      *)
(***************************************************************************)
EXTENDS Integers, FiniteSets, Sequences, TLC

VARIABLES
    PERMISSION_OVERRIDES,   \* rbac: userId -> partial map Permission -> BOOLEAN
    space_permissions,      \* table space_permissions: <<spaceId, userId>> -> set of flags that are true
    lastCheck,              \* the evaluator call in progress and the value it returns
    users,                  \* profiles: userId -> legacy role string
    spaces,                 \* table spaces: spaceId -> [createdBy, deletedAt, name, type]
    space_members,          \* table space_members: <<spaceId, userId>> -> role
    currentUser,            \* store: the signed-in user's id, or Undefined
    allSpaces,              \* store: the loaded spaces, spaceId -> the row as loaded
    activeSpaceId,          \* store: the active space, or Undefined
    currentSpacePermission, \* store: the row loaded for the active space, or NoRow
    lookups,                \* getSpacePermissions requests in flight: [spaceId, userId]
    selectedSpace,          \* Spaces: the space whose settings modal is open, or Undefined
    permissions,            \* SpaceSettings: userId -> set of flags, the rows being edited
    showDeleted,            \* Spaces: the trash section is shown
    issues,                 \* table issues: issueId -> [status, sprintId, epicId, assigneeId, spaceId]
    invites,                \* table invites: inviteId -> row
    org_members,            \* table org_members: <<orgId, userId>> -> role
    workspace_members,      \* table workspace_members: <<workspaceId, userId>> -> role
    acceptCalls,            \* api.acceptInvite calls: callId -> position and locals
    now,                    \* the clock that new Date() and NOW() read
    codes,                  \* column code: table -> the codes of its rows
    inserts,                \* inserts in progress: insertId -> position, table and code
    team_members,           \* table team_members: <<scopeId, email>> -> row
    teamCall,               \* api.createTeamMember call: position, arguments, error
    isSupabaseConfigured,   \* supabaseClient: the persistence client is configured
    activities,             \* table activities: the rows in the order of their insertion
    notifications,          \* table notifications: the rows in the order of their insertion
    storeCall,              \* the store operation in progress: position, arguments, closure, outcome
    rawIssues,              \* store: the loaded issues, issueId -> the row as held locally
    sprints,                \* table sprints: sprintId -> status
    allSprints,             \* store: the loaded sprints, sprintId -> status
    organizations,          \* table organizations: orgId -> [ownerId]
    userOrgs,               \* store: the ids of the loaded organizations
    activeOrgId,            \* store: the active organization, or Undefined
    currentOrgRole,         \* store: the user's role in the active organization, or Undefined
    orgLookups,             \* getOrgMemberRole requests in flight: [orgId, userId]
    orgCall,                \* the organization operation of the api in progress
    createCalls             \* api.createInvite calls: callId -> position and invite

\* The state of the project store and of its components.
storeVars == <<users, spaces, space_members, currentUser, allSpaces, activeSpaceId,
               currentSpacePermission, lookups, selectedSpace, permissions, showDeleted>>

\* The tables and requests outside the space screens.
inviteVars == <<invites, org_members, workspace_members, acceptCalls, now>>

codeVars == <<codes, inserts>>

teamVars == <<team_members, teamCall>>

\* The persistence client, the audit tables and the store operation in progress.
auditVars == <<isSupabaseConfigured, activities, notifications, storeCall>>

\* The local issues and the sprints.
issueVars == <<rawIssues, sprints, allSprints>>

\* Organizations, the active organization and its lookups.
orgVars == <<organizations, userOrgs, activeOrgId, currentOrgRole, orgLookups, orgCall>>

moreVars == <<auditVars, issueVars, orgVars, createCalls>>

\* The tables that the invite and member operations do not touch.
restVars == <<codeVars, teamVars, moreVars>>

extVars == <<issues, inviteVars, restVars>>

vars == <<PERMISSION_OVERRIDES, space_permissions, lastCheck, storeVars, extVars>>

-----------------------------------------------------------------------------
(* Enumerations (src/types.ts)                                             *)

\* JavaScript undefined / null: an absent optional field or an absent row.
Undefined == "undefined"

OrgRole == {"Founder", "Admin", "Manager", "Member", "Viewer"}

WorkspaceRole == {"Workspace Admin", "Workspace Manager", "Workspace Member", "Workspace Viewer"}

SpaceRole == {"Space Owner", "Space Contributor", "Space Viewer"}

UserRole == {"Founder", "CTO", "CAO", "Admin", "Team Lead", "Product Manager",
             "Developer", "Designer", "QA Engineer", "Operations"}

Permission == {
    "CREATE_ORGANIZATION", "DELETE_ORGANIZATION", "MANAGE_BILLING", "TRANSFER_OWNERSHIP",
    "INVITE_TO_ORG", "REMOVE_FROM_ORG",
    "CREATE_WORKSPACE", "DELETE_WORKSPACE", "EDIT_WORKSPACE", "MANAGE_WORKSPACE_SETTINGS",
    "INVITE_TO_WORKSPACE", "REMOVE_FROM_WORKSPACE", "MANAGE_MEMBERS",
    "CREATE_PROJECT", "EDIT_PROJECT", "DELETE_PROJECT", "MANAGE_ACCESS",
    "CREATE_SPACE", "EDIT_SPACE", "DELETE_SPACE", "INVITE_TO_SPACE", "REMOVE_FROM_SPACE",
    "CREATE_SPRINT", "MANAGE_SPRINT", "CREATE_EPIC", "CREATE_TASK", "EDIT_TASK",
    "DELETE_TASK", "ASSIGN_TASK", "UPDATE_TASK_STATUS", "MANAGE_TEAMS",
    "MANAGE_ROADMAP", "VIEW_ANALYTICS", "VIEW_ONLY"}

\* The nine boolean columns of a SpacePermission row.
SpaceFlags == {"canView", "canCreateTasks", "canEditTasks", "canDeleteTasks", "canManageBoard",
               "canManageSprints", "canEditSpace", "canDeleteSpace", "canManageMembers"}

-----------------------------------------------------------------------------
(* Role catalogs (rbac)                                                    *)

ORG_ROLE_PERMISSIONS ==
    [r \in OrgRole |->
        CASE r = "Founder" -> Permission
          [] r = "Admin" ->
                {"CREATE_WORKSPACE", "EDIT_WORKSPACE", "DELETE_WORKSPACE", "INVITE_TO_ORG",
                 "INVITE_TO_WORKSPACE", "CREATE_PROJECT", "EDIT_PROJECT", "DELETE_PROJECT",
                 "CREATE_SPACE", "EDIT_SPACE", "CREATE_SPRINT", "MANAGE_SPRINT", "CREATE_EPIC",
                 "CREATE_TASK", "EDIT_TASK", "DELETE_TASK", "ASSIGN_TASK", "UPDATE_TASK_STATUS",
                 "MANAGE_TEAMS", "MANAGE_ROADMAP", "VIEW_ANALYTICS"}
          [] r = "Manager" ->
                {"INVITE_TO_WORKSPACE", "CREATE_PROJECT", "EDIT_PROJECT", "CREATE_SPACE",
                 "EDIT_SPACE", "INVITE_TO_SPACE", "CREATE_SPRINT", "MANAGE_SPRINT", "CREATE_EPIC",
                 "CREATE_TASK", "EDIT_TASK", "ASSIGN_TASK", "UPDATE_TASK_STATUS", "MANAGE_TEAMS",
                 "VIEW_ANALYTICS"}
          [] r = "Member" ->
                {"CREATE_TASK", "EDIT_TASK", "UPDATE_TASK_STATUS", "VIEW_ANALYTICS"}
          [] r = "Viewer" -> {"VIEW_ONLY"}]

WORKSPACE_ROLE_PERMISSIONS ==
    [r \in WorkspaceRole |->
        CASE r = "Workspace Admin" ->
                {"EDIT_WORKSPACE", "INVITE_TO_WORKSPACE", "REMOVE_FROM_WORKSPACE", "CREATE_PROJECT",
                 "EDIT_PROJECT", "DELETE_PROJECT", "CREATE_SPACE", "EDIT_SPACE", "DELETE_SPACE",
                 "CREATE_SPRINT", "MANAGE_SPRINT", "CREATE_EPIC", "CREATE_TASK", "EDIT_TASK",
                 "DELETE_TASK", "ASSIGN_TASK", "UPDATE_TASK_STATUS", "MANAGE_TEAMS",
                 "VIEW_ANALYTICS"}
          [] r = "Workspace Manager" ->
                {"INVITE_TO_WORKSPACE", "CREATE_PROJECT", "EDIT_PROJECT", "CREATE_SPACE",
                 "EDIT_SPACE", "CREATE_SPRINT", "MANAGE_SPRINT", "CREATE_EPIC", "CREATE_TASK",
                 "EDIT_TASK", "ASSIGN_TASK", "UPDATE_TASK_STATUS", "MANAGE_TEAMS"}
          [] r = "Workspace Member" -> {"CREATE_TASK", "EDIT_TASK", "UPDATE_TASK_STATUS"}
          [] r = "Workspace Viewer" -> {"VIEW_ONLY"}]

SPACE_ROLE_PERMISSIONS ==
    [r \in SpaceRole |->
        CASE r = "Space Owner" ->
                {"EDIT_SPACE", "DELETE_SPACE", "INVITE_TO_SPACE", "REMOVE_FROM_SPACE",
                 "CREATE_SPRINT", "MANAGE_SPRINT", "CREATE_TASK", "EDIT_TASK", "DELETE_TASK",
                 "ASSIGN_TASK", "UPDATE_TASK_STATUS"}
          [] r = "Space Contributor" ->
                {"CREATE_TASK", "EDIT_TASK", "ASSIGN_TASK", "UPDATE_TASK_STATUS"}
          [] r = "Space Viewer" -> {"VIEW_ONLY"}]

\* Legacy catalog of the tiered rbac module: every UserRole has an entry.
ROLE_PERMISSIONS ==
    [r \in UserRole |->
        CASE r = "Founder" -> Permission
          [] r \in {"CTO", "CAO"} ->
                {"CREATE_WORKSPACE", "EDIT_WORKSPACE", "CREATE_PROJECT", "EDIT_PROJECT",
                 "CREATE_SPACE", "EDIT_SPACE", "CREATE_SPRINT", "MANAGE_SPRINT", "CREATE_EPIC",
                 "CREATE_TASK", "EDIT_TASK", "DELETE_TASK", "ASSIGN_TASK", "UPDATE_TASK_STATUS",
                 "MANAGE_TEAMS", "MANAGE_ROADMAP", "VIEW_ANALYTICS"}
          [] r = "Admin" ->
                {"CREATE_PROJECT", "EDIT_PROJECT", "CREATE_SPACE", "EDIT_SPACE", "CREATE_SPRINT",
                 "MANAGE_SPRINT", "CREATE_EPIC", "CREATE_TASK", "EDIT_TASK", "ASSIGN_TASK",
                 "UPDATE_TASK_STATUS", "MANAGE_TEAMS"}
          [] r = "Product Manager" ->
                {"CREATE_SPRINT", "MANAGE_SPRINT", "CREATE_EPIC", "CREATE_TASK", "EDIT_TASK",
                 "ASSIGN_TASK", "UPDATE_TASK_STATUS", "MANAGE_TEAMS", "MANAGE_ROADMAP"}
          [] r = "Team Lead" -> {"CREATE_TASK", "EDIT_TASK", "ASSIGN_TASK", "UPDATE_TASK_STATUS"}
          [] r = "Developer" -> {"CREATE_TASK", "EDIT_TASK", "UPDATE_TASK_STATUS"}
          [] r \in {"Designer", "QA Engineer"} -> {"CREATE_TASK", "UPDATE_TASK_STATUS"}
          [] r = "Operations" -> {"UPDATE_TASK_STATUS"}]

\* Legacy catalog of src/utils/rbac.ts: CAO, Admin and Designer have no entry.
ROLE_PERMISSIONS_rbac ==
    [r \in UserRole \ {"CAO", "Admin", "Designer"} |->
        CASE r = "Founder" -> Permission
          [] r = "CTO" ->
                {"CREATE_PROJECT", "EDIT_PROJECT", "CREATE_SPACE", "EDIT_SPACE", "CREATE_SPRINT",
                 "MANAGE_SPRINT", "CREATE_EPIC", "CREATE_TASK", "EDIT_TASK", "DELETE_TASK",
                 "ASSIGN_TASK", "UPDATE_TASK_STATUS", "MANAGE_TEAMS", "MANAGE_ROADMAP"}
          [] r = "Product Manager" ->
                {"CREATE_SPRINT", "MANAGE_SPRINT", "CREATE_EPIC", "CREATE_TASK", "EDIT_TASK",
                 "ASSIGN_TASK", "UPDATE_TASK_STATUS", "MANAGE_TEAMS", "MANAGE_ROADMAP"}
          [] r = "Team Lead" -> {"CREATE_TASK", "EDIT_TASK", "ASSIGN_TASK", "UPDATE_TASK_STATUS"}
          [] r = "Developer" -> {"CREATE_TASK", "EDIT_TASK", "UPDATE_TASK_STATUS"}
          [] r = "QA Engineer" -> {"CREATE_TASK", "UPDATE_TASK_STATUS"}
          [] r = "Operations" -> {"UPDATE_TASK_STATUS"}]

-----------------------------------------------------------------------------
(* Bounds of the model                                                     *)

UserIds == {"u1", "u2"}

SpaceIds == {"s1", "s2"}

\* The capabilities an administrator sets overrides for in the model.
OverridablePermissions == {"DELETE_SPACE", "CREATE_TASK"}

\* The largest number of entries of one user's override map.
MaxOverrideEntries == 1

\* The override maps handed to setPermissionOverrides.
OverrideInputs ==
    UNION {[D -> BOOLEAN] : D \in {E \in SUBSET OverridablePermissions :
                                        Cardinality(E) <= MaxOverrideEntries}}

\* A role string that belongs to no role enumeration.
UnknownRole == "Intern"

\* Every role string handed to the legacy hasPermission.
RoleStrings == UserRole \cup OrgRole \cup WorkspaceRole \cup SpaceRole \cup {UnknownRole}

\* Every PermissionContext: each field is optional.
PermissionContext ==
    [orgRole : OrgRole \cup {Undefined},
     workspaceRole : WorkspaceRole \cup {Undefined},
     spaceRole : SpaceRole \cup {Undefined},
     userId : UserIds \cup {Undefined}]

-----------------------------------------------------------------------------
(* Permission check functions (rbac)                                       *)

\* PERMISSION_OVERRIDES[userId]?.[permission] !== undefined, for a truthy userId
hasOverride(userId, permission) ==
    /\ userId # Undefined
    /\ userId \in DOMAIN PERMISSION_OVERRIDES
    /\ permission \in DOMAIN PERMISSION_OVERRIDES[userId]

hasOrgPermission(orgRole, permission) ==
    IF orgRole = "Founder" THEN TRUE
    ELSE IF orgRole \in DOMAIN ORG_ROLE_PERMISSIONS
         THEN permission \in ORG_ROLE_PERMISSIONS[orgRole]
         ELSE FALSE

hasWorkspacePermission(workspaceRole, permission) ==
    IF workspaceRole \in DOMAIN WORKSPACE_ROLE_PERMISSIONS
    THEN permission \in WORKSPACE_ROLE_PERMISSIONS[workspaceRole]
    ELSE FALSE

hasSpacePermission(spaceRole, permission) ==
    IF spaceRole \in DOMAIN SPACE_ROLE_PERMISSIONS
    THEN permission \in SPACE_ROLE_PERMISSIONS[spaceRole]
    ELSE FALSE

\* Legacy check of the tiered rbac module: the Founder test comes first.
hasPermission(userRole, permission, userId) ==
    IF userRole = "Founder" THEN TRUE
    ELSE IF hasOverride(userId, permission) THEN PERMISSION_OVERRIDES[userId][permission]
    ELSE IF userRole \in OrgRole THEN hasOrgPermission(userRole, permission)
    ELSE IF userRole \in WorkspaceRole THEN hasWorkspacePermission(userRole, permission)
    ELSE IF userRole \in SpaceRole THEN hasSpacePermission(userRole, permission)
    ELSE LET role == IF userRole \in UserRole THEN userRole ELSE "Developer"
             allowedPermissions == IF role \in DOMAIN ROLE_PERMISSIONS
                                   THEN ROLE_PERMISSIONS[role] ELSE {}
         IN  permission \in allowedPermissions

\* Legacy check of src/utils/rbac.ts.
hasPermission_rbac(userRole, permission, userId) ==
    IF userRole = "Founder" THEN TRUE
    ELSE IF hasOverride(userId, permission) THEN PERMISSION_OVERRIDES[userId][permission]
    ELSE LET role == IF userRole \in UserRole THEN userRole ELSE "Developer"
             allowedPermissions == IF role \in DOMAIN ROLE_PERMISSIONS_rbac
                                   THEN ROLE_PERMISSIONS_rbac[role] ELSE {}
         IN  permission \in allowedPermissions

\* Mutant: the Founder test is moved in front of the override test.
checkPermissionWithContext_FounderFirst(permission, context) ==
    IF context.orgRole = "Founder" THEN TRUE
    ELSE IF hasOverride(context.userId, permission)
         THEN PERMISSION_OVERRIDES[context.userId][permission]
    ELSE IF context.spaceRole # Undefined /\ hasSpacePermission(context.spaceRole, permission)
         THEN TRUE
    ELSE IF context.workspaceRole # Undefined
            /\ hasWorkspacePermission(context.workspaceRole, permission) THEN TRUE
    ELSE IF context.orgRole # Undefined /\ hasOrgPermission(context.orgRole, permission)
         THEN TRUE
    ELSE FALSE

\* Mutant: a present space role decides alone, before the Founder test.
checkPermissionWithContext_SpaceDecides(permission, context) ==
    IF hasOverride(context.userId, permission)
    THEN PERMISSION_OVERRIDES[context.userId][permission]
    ELSE IF context.spaceRole # Undefined THEN hasSpacePermission(context.spaceRole, permission)
    ELSE IF context.orgRole = "Founder" THEN TRUE
    ELSE IF context.workspaceRole # Undefined
            /\ hasWorkspacePermission(context.workspaceRole, permission) THEN TRUE
    ELSE IF context.orgRole # Undefined /\ hasOrgPermission(context.orgRole, permission)
         THEN TRUE
    ELSE FALSE

\* Mutant: the workspace tier is left out of the chain.
checkPermissionWithContext_NoWorkspaceTier(permission, context) ==
    IF hasOverride(context.userId, permission)
    THEN PERMISSION_OVERRIDES[context.userId][permission]
    ELSE IF context.orgRole = "Founder" THEN TRUE
    ELSE IF context.spaceRole # Undefined /\ hasSpacePermission(context.spaceRole, permission)
         THEN TRUE
    ELSE IF context.orgRole # Undefined /\ hasOrgPermission(context.orgRole, permission)
         THEN TRUE
    ELSE FALSE

\* Combined permission check with hierarchy.
checkPermissionWithContext(permission, context) ==
    IF hasOverride(context.userId, permission)
    THEN PERMISSION_OVERRIDES[context.userId][permission]
    ELSE IF context.orgRole = "Founder" THEN TRUE
    ELSE IF context.spaceRole # Undefined /\ hasSpacePermission(context.spaceRole, permission)
         THEN TRUE
    ELSE IF context.workspaceRole # Undefined
            /\ hasWorkspacePermission(context.workspaceRole, permission) THEN TRUE
    ELSE IF context.orgRole # Undefined /\ hasOrgPermission(context.orgRole, permission)
         THEN TRUE
    ELSE FALSE

-----------------------------------------------------------------------------
(* The evaluators under their callers.  A call applies the function to     *)
(* every argument list of its domain against the current override store    *)
(* and holds the verdicts until it returns; the store changes only between *)
(* calls (the functions are synchronous).                                  *)

NoCheck == [fn |-> "none", result |-> <<>>]

\* null in place of a SpacePermission row, and a row with its true flags.
NoRow == [present |-> FALSE, spaceId |-> Undefined, userId |-> Undefined, flags |-> {}]

SpacePermission(spaceId, userId, flags) ==
    [present |-> TRUE, spaceId |-> spaceId, userId |-> userId, flags |-> flags]

\* A context from its four optional fields.
Ctx(o, w, s, u) == [orgRole |-> o, workspaceRole |-> w, spaceRole |-> s, userId |-> u]

\* The verdict a checkPermissionWithContext call holds for (permission, context).
Verdict(permission, context) ==
    lastCheck.result[permission][context.orgRole][context.workspaceRole]
                    [context.spaceRole][context.userId]

\* The verdict a legacy hasPermission call holds for (userRole, permission, userId).
LegacyVerdict(userRole, permission, userId) == lastCheck.result[userRole][permission][userId]

\* The space_permissions tables the evaluator runs against: empty, or one row
\* for (s1, u1) with every flag false, or with every flag true.
EvalTables ==
    {<<>>} \cup {[k \in {<<"s1", "u1">>} |-> row] : row \in {{}, SpaceFlags}}

\* The store before anyone has signed in.
StoreIdle ==
    /\ users = [u \in UserIds |-> "Developer"]
    /\ spaces = <<>>
    /\ space_members = <<>>
    /\ currentUser = Undefined
    /\ allSpaces = <<>>
    /\ activeSpaceId = Undefined
    /\ currentSpacePermission = NoRow
    /\ lookups = {}
    /\ selectedSpace = Undefined
    /\ permissions = <<>>
    /\ showDeleted = FALSE

\* No rows in the tables outside the space screens, no request in flight.
InviteIdle ==
    /\ invites = <<>>
    /\ org_members = <<>>
    /\ workspace_members = <<>>
    /\ acceptCalls = <<>>
    /\ now = 0

CodeIdle ==
    /\ codes = <<>>
    /\ inserts = <<>>

TeamIdle ==
    /\ team_members = <<>>
    /\ teamCall = <<>>

\* A row of issues, with the fields the store and the api read.
Issue(status, sprintId, epicId, assigneeId, spaceId) ==
    [status |-> status, sprintId |-> sprintId, epicId |-> epicId,
     assigneeId |-> assigneeId, spaceId |-> spaceId]

\* A row of activities; id tells the rows of the application ("act-now",
\* from Date.now()) from the rows of the trigger ("act-uuid").
Activity(id, spaceId, action) == [id |-> id, spaceId |-> spaceId, action |-> action]

NoActivity == Activity(Undefined, Undefined, Undefined)

\* No store operation in progress.
NoStoreCall ==
    [fn |-> "none", pc |-> "idle", next |-> Undefined, activity |-> NoActivity,
     id |-> Undefined, target |-> Undefined, activeSpaceId |-> Undefined,
     currentUser |-> Undefined, persisted |-> FALSE, apiFailed |-> FALSE,
     auditFailed |-> FALSE, toasts |-> <<>>, error |-> Undefined, startLen |-> 0]

\* A configured client, empty audit tables, no store operation in progress.
AuditIdle ==
    /\ isSupabaseConfigured = TRUE
    /\ activities = <<>>
    /\ notifications = <<>>
    /\ storeCall = NoStoreCall

IssueIdle ==
    /\ rawIssues = <<>>
    /\ sprints = <<>>
    /\ allSprints = <<>>

\* The organization call not in progress.
NoOrgCall == [fn |-> "none", pc |-> "idle", orgId |-> Undefined,
              currentOwnerId |-> Undefined, newOwnerId |-> Undefined, error |-> Undefined,
              sound |-> TRUE, writes |-> 0]

OrgIdle ==
    /\ organizations = <<>>
    /\ userOrgs = {}
    /\ activeOrgId = Undefined
    /\ currentOrgRole = Undefined
    /\ orgLookups = {}
    /\ orgCall = NoOrgCall

MoreIdle ==
    /\ AuditIdle
    /\ IssueIdle
    /\ OrgIdle
    /\ createCalls = <<>>

RestIdle == CodeIdle /\ TeamIdle /\ MoreIdle

ExtIdle ==
    /\ issues = <<>>
    /\ InviteIdle
    /\ RestIdle

InitEval ==
    /\ ExtIdle
    /\ PERMISSION_OVERRIDES = <<>>
    /\ space_permissions \in EvalTables
    /\ lastCheck = NoCheck
    /\ StoreIdle

setPermissionOverrides(userId, overrides) ==
    /\ lastCheck.fn = "none"
    /\ PERMISSION_OVERRIDES' =
          [u \in DOMAIN PERMISSION_OVERRIDES \cup {userId} |->
              IF u = userId THEN overrides ELSE PERMISSION_OVERRIDES[u]]
    /\ UNCHANGED <<space_permissions, lastCheck, storeVars>>
    /\ UNCHANGED extVars

clearPermissionOverrides(userId) ==
    /\ lastCheck.fn = "none"
    /\ PERMISSION_OVERRIDES' =
          [u \in DOMAIN PERMISSION_OVERRIDES \ {userId} |-> PERMISSION_OVERRIDES[u]]
    /\ UNCHANGED <<space_permissions, lastCheck, storeVars>>
    /\ UNCHANGED extVars

CallCheckPermissionWithContext ==
    /\ lastCheck.fn = "none"
    /\ lastCheck' =
          [fn |-> "checkPermissionWithContext",
           result |->
              [p \in Permission |-> [o \in OrgRole \cup {Undefined} |->
                  [w \in WorkspaceRole \cup {Undefined} |-> [s \in SpaceRole \cup {Undefined} |->
                      [u \in UserIds \cup {Undefined} |->
                          checkPermissionWithContext(p, Ctx(o, w, s, u))]]]]]]
    /\ UNCHANGED <<PERMISSION_OVERRIDES, space_permissions, storeVars>>
    /\ UNCHANGED extVars

CallHasPermission ==
    /\ lastCheck.fn = "none"
    /\ lastCheck' =
          [fn |-> "hasPermission",
           result |-> [r \in RoleStrings |-> [p \in Permission |->
                          [u \in UserIds \cup {Undefined} |-> hasPermission(r, p, u)]]]]
    /\ UNCHANGED <<PERMISSION_OVERRIDES, space_permissions, storeVars>>
    /\ UNCHANGED extVars

CallHasPermission_rbac ==
    /\ lastCheck.fn = "none"
    /\ lastCheck' =
          [fn |-> "hasPermission_rbac",
           result |-> [r \in RoleStrings |-> [p \in Permission |->
                          [u \in UserIds \cup {Undefined} |-> hasPermission_rbac(r, p, u)]]]]
    /\ UNCHANGED <<PERMISSION_OVERRIDES, space_permissions, storeVars>>
    /\ UNCHANGED extVars

ReturnCheck ==
    /\ lastCheck.fn # "none"
    /\ lastCheck' = NoCheck
    /\ UNCHANGED <<PERMISSION_OVERRIDES, space_permissions, storeVars>>
    /\ UNCHANGED extVars

NextEval ==
    \/ \E u \in UserIds, o \in OverrideInputs : setPermissionOverrides(u, o)
    \/ \E u \in UserIds : clearPermissionOverrides(u)
    \/ CallCheckPermissionWithContext
    \/ CallHasPermission
    \/ CallHasPermission_rbac
    \/ ReturnCheck

SpecEval == InitEval /\ [][NextEval]_vars

-----------------------------------------------------------------------------
(* The project store (ProjectProvider) and the Spaces / SpaceSettings      *)
(* components.  One browser session works against the tables; the spaces   *)
(* of the one loaded project are the rows of `spaces`.                     *)

\* Default permissions by role: the flags that are true.
DEFAULT_SPACE_PERMISSIONS ==
    [r \in UserRole |->
        CASE r = "Founder" -> SpaceFlags
          [] r \in {"CTO", "CAO"} ->
                {"canView", "canCreateTasks", "canEditTasks", "canManageBoard",
                 "canManageSprints", "canEditSpace", "canManageMembers"}
          [] r \in {"Admin", "Team Lead", "Product Manager"} ->
                {"canView", "canCreateTasks", "canEditTasks", "canManageBoard",
                 "canManageSprints"}
          [] r \in {"Developer", "QA Engineer", "Operations"} ->
                {"canView", "canCreateTasks", "canEditTasks"}
          [] r = "Designer" -> {"canView", "canCreateTasks"}]

\* The legacy role strings of the first user's profile in the model.
StoreRoles == UserRole \cup {"Space Contributor", UnknownRole}

\* The checkboxes of the permissions tab that the model toggles.
ToggleKeys == {"canEditTasks", "canManageBoard"}

\* The row of space_permissions for (spaceId, userId), or null.
RowFor(spaceId, userId) ==
    IF <<spaceId, userId>> \in DOMAIN space_permissions
    THEN SpacePermission(spaceId, userId, space_permissions[<<spaceId, userId>>])
    ELSE NoRow

\* upsert / delete on space_permissions (api.updateSpacePermissions, api.deleteSpacePermission)
Upsert(table, rows) ==
    [k \in DOMAIN table \cup DOMAIN rows |-> IF k \in DOMAIN rows THEN rows[k] ELSE table[k]]

Without(table, key) == [k \in DOMAIN table \ {key} |-> table[k]]

\* api.getSpaces(projectId): the rows whose deletedAt is null.
getSpaces ==
    IF isSupabaseConfigured
    THEN [s \in {x \in DOMAIN spaces : spaces[x].deletedAt = Undefined} |-> spaces[s]]
    ELSE <<>>

activeSpaces == {s \in DOMAIN allSpaces : allSpaces[s].deletedAt = Undefined}

deletedSpaces == {s \in DOMAIN allSpaces : allSpaces[s].deletedAt # Undefined}

isFounder == currentUser # Undefined /\ users[currentUser] = "Founder"

\* SpaceSettings: canManage = isFounder || isCTO
canManage == currentUser # Undefined /\ users[currentUser] \in {"Founder", "CTO"}

checkPermission(permission) ==
    IF currentUser = Undefined THEN FALSE
    ELSE IF users[currentUser] = "Founder" THEN TRUE
    ELSE hasPermission(users[currentUser], permission, currentUser)

\* Mutant: the loaded row can only add to the role defaults.
checkSpacePermission_RowOnlyAdds(permission) ==
    IF currentUser = Undefined THEN FALSE
    ELSE IF users[currentUser] = "Founder" THEN TRUE
    ELSE \/ currentSpacePermission.present /\ permission \in currentSpacePermission.flags
         \/ users[currentUser] \in DOMAIN DEFAULT_SPACE_PERMISSIONS
              /\ permission \in DEFAULT_SPACE_PERMISSIONS[users[currentUser]]

checkSpacePermission(permission) ==
    IF currentUser = Undefined THEN FALSE
    ELSE IF users[currentUser] = "Founder" THEN TRUE
    ELSE IF currentSpacePermission.present THEN permission \in currentSpacePermission.flags
    ELSE IF users[currentUser] \in DOMAIN DEFAULT_SPACE_PERMISSIONS
         THEN permission \in DEFAULT_SPACE_PERMISSIONS[users[currentUser]]
         ELSE FALSE

\* api.getIssues / api.getSprints of the project.
getIssues == IF isSupabaseConfigured THEN issues ELSE <<>>

getSprints == IF isSupabaseConfigured THEN sprints ELSE <<>>

\* api.getOrganizations(userId): the organizations the user owns, then those
\* the user is a member of.
ownedOrgs(userId) == {o \in DOMAIN organizations : organizations[o].ownerId = userId}

getOrganizations(userId) ==
    IF isSupabaseConfigured
    THEN ownedOrgs(userId)
            \cup {o \in DOMAIN organizations : <<o, userId>> \in DOMAIN org_members}
    ELSE {}

\* userOrgs[0]: an owned organization when there is one (the queries have no order).
firstOrg(userId) ==
    IF ownedOrgs(userId) # {} THEN ownedOrgs(userId) ELSE getOrganizations(userId)

InitStore ==
    /\ ExtIdle
    /\ PERMISSION_OVERRIDES = <<>>
    /\ space_permissions = <<>>
    /\ lastCheck = NoCheck
    /\ users \in {[u \in UserIds |-> IF u = "u1" THEN r ELSE "Founder"] : r \in StoreRoles}
    /\ spaces = [s \in {"s1"} |-> [createdBy |-> "u2", deletedAt |-> Undefined,
                                    name |-> "Backend", type |-> "general"]]
    /\ space_members = <<>>
    /\ currentUser = Undefined
    /\ allSpaces = <<>>
    /\ activeSpaceId = Undefined
    /\ currentSpacePermission = NoRow
    /\ lookups = {}
    /\ selectedSpace = Undefined
    /\ permissions = <<>>
    /\ showDeleted = FALSE

\* A session for userId starts (init returns before it when the client is not
\* configured): the profile and the organizations are loaded, the first
\* organization becomes the active one and its role is asked for, then the
\* project's issues, sprints and spaces are loaded; the effect on
\* [activeSpaceId, currentUser] finds no active space.
handleSession(userId) ==
    /\ lastCheck.fn = "none"
    /\ isSupabaseConfigured
    /\ currentUser = Undefined
    /\ currentUser' = userId
    /\ allSpaces' = getSpaces
    /\ rawIssues' = getIssues
    /\ allSprints' = getSprints
    /\ currentSpacePermission' = NoRow
    /\ userOrgs' = getOrganizations(userId)
    /\ IF getOrganizations(userId) # {}
       THEN \E o \in firstOrg(userId) :
               /\ activeOrgId' = o
               /\ orgLookups' = orgLookups \cup {[orgId |-> o, userId |-> userId]}
       ELSE UNCHANGED <<activeOrgId, orgLookups>>
    /\ UNCHANGED <<PERMISSION_OVERRIDES, space_permissions, lastCheck, users, spaces,
                   space_members, activeSpaceId, lookups, selectedSpace, permissions,
                   showDeleted>>
    /\ UNCHANGED <<issues, inviteVars, codeVars, teamVars, auditVars, sprints,
                   organizations, currentOrgRole, orgCall, createCalls>>

\* logout resets the store; the components unmount; requests in flight stay in flight.
logout ==
    /\ lastCheck.fn = "none"
    /\ currentUser # Undefined
    /\ currentUser' = Undefined
    /\ allSpaces' = <<>>
    /\ activeSpaceId' = Undefined
    /\ currentSpacePermission' = NoRow
    /\ selectedSpace' = Undefined
    /\ permissions' = <<>>
    /\ showDeleted' = FALSE
    /\ rawIssues' = <<>>
    /\ allSprints' = <<>>
    /\ userOrgs' = {}
    /\ activeOrgId' = Undefined
    /\ currentOrgRole' = Undefined
    /\ UNCHANGED <<PERMISSION_OVERRIDES, space_permissions, lastCheck, users, spaces,
                   space_members, lookups>>
    /\ UNCHANGED <<issues, inviteVars, codeVars, teamVars, auditVars, sprints,
                   organizations, orgLookups, orgCall, createCalls>>

\* setActiveSpace (handleEnterSpace, or leaving the space) and the effect on
\* [activeSpaceId, currentUser]: a lookup is sent, or the row is reset to null.
setActiveSpace(id) ==
    /\ lastCheck.fn = "none"
    /\ currentUser # Undefined
    /\ selectedSpace = Undefined
    /\ id \in activeSpaces \cup {Undefined}
    /\ id # activeSpaceId
    /\ activeSpaceId' = id
    /\ IF id # Undefined
       THEN /\ lookups' = lookups \cup {[spaceId |-> id, userId |-> currentUser]}
            /\ UNCHANGED currentSpacePermission
       ELSE /\ currentSpacePermission' = NoRow
            /\ UNCHANGED lookups
    /\ UNCHANGED <<PERMISSION_OVERRIDES, space_permissions, lastCheck, users, spaces,
                   space_members, currentUser, allSpaces, selectedSpace, permissions,
                   showDeleted>>
    /\ UNCHANGED extVars

\* api.getSpacePermissions(spaceId) answers: the callback keeps the row of the user
\* who was signed in when the request was sent.
LookupResponse(req) ==
    /\ lastCheck.fn = "none"
    /\ req \in lookups
    /\ lookups' = lookups \ {req}
    /\ currentSpacePermission' = RowFor(req.spaceId, req.userId)
    /\ UNCHANGED <<PERMISSION_OVERRIDES, space_permissions, lastCheck, users, spaces,
                   space_members, currentUser, allSpaces, activeSpaceId, selectedSpace,
                   permissions, showDeleted>>
    /\ UNCHANGED extVars

\* Mutant: the update writes a whole row and loses the name.
softDeleteSpace_WholeRow(id) ==
    /\ spaces' = [s \in DOMAIN spaces |->
                     IF s = id THEN [spaces[s] EXCEPT !.deletedAt = "now", !.name = Undefined]
                     ELSE spaces[s]]
    /\ allSpaces' = [s \in DOMAIN allSpaces |->
                        IF s = id THEN [allSpaces[s] EXCEPT !.deletedAt = "now"]
                        ELSE allSpaces[s]]
    /\ IF activeSpaceId = id
       THEN activeSpaceId' = Undefined /\ currentSpacePermission' = NoRow
       ELSE UNCHANGED <<activeSpaceId, currentSpacePermission>>

\* The store's softDeleteSpace / restoreSpace: the table, then the local list.
softDeleteSpace(id) ==
    /\ spaces' = [s \in DOMAIN spaces |->
                     IF s = id THEN [spaces[s] EXCEPT !.deletedAt = "now"] ELSE spaces[s]]
    /\ allSpaces' = [s \in DOMAIN allSpaces |->
                        IF s = id THEN [allSpaces[s] EXCEPT !.deletedAt = "now"]
                        ELSE allSpaces[s]]
    /\ IF activeSpaceId = id
       THEN activeSpaceId' = Undefined /\ currentSpacePermission' = NoRow
       ELSE UNCHANGED <<activeSpaceId, currentSpacePermission>>

restoreSpace(id) ==
    /\ spaces' = [s \in DOMAIN spaces |->
                     IF s = id THEN [spaces[s] EXCEPT !.deletedAt = Undefined] ELSE spaces[s]]
    /\ allSpaces' = [s \in DOMAIN allSpaces |->
                        IF s = id THEN [allSpaces[s] EXCEPT !.deletedAt = Undefined]
                        ELSE allSpaces[s]]

\* Spaces: the trash button of a space card, rendered when canDeleteSpace.
handleDeleteSpace(id) ==
    /\ lastCheck.fn = "none"
    /\ selectedSpace = Undefined
    /\ checkPermission("DELETE_SPACE")
    /\ id \in activeSpaces
    /\ softDeleteSpace(id)
    /\ UNCHANGED <<PERMISSION_OVERRIDES, space_permissions, lastCheck, users,
                   space_members, currentUser, lookups, selectedSpace, permissions,
                   showDeleted>>
    /\ UNCHANGED extVars

\* Spaces: the Trash toggle, rendered for a Founder while a space is deleted.
toggleShowDeleted ==
    /\ lastCheck.fn = "none"
    /\ selectedSpace = Undefined
    /\ isFounder
    /\ deletedSpaces # {}
    /\ showDeleted' = ~showDeleted
    /\ UNCHANGED <<PERMISSION_OVERRIDES, space_permissions, lastCheck, users, spaces,
                   space_members, currentUser, allSpaces, activeSpaceId,
                   currentSpacePermission, lookups, selectedSpace, permissions>>
    /\ UNCHANGED extVars

\* Spaces: the Restore button of a card of the trash section.
handleRestoreSpace(id) ==
    /\ lastCheck.fn = "none"
    /\ selectedSpace = Undefined
    /\ showDeleted
    /\ id \in deletedSpaces
    /\ restoreSpace(id)
    /\ UNCHANGED <<PERMISSION_OVERRIDES, space_permissions, lastCheck, users,
                   space_members, currentUser, activeSpaceId, currentSpacePermission,
                   lookups, selectedSpace, permissions, showDeleted>>
    /\ UNCHANGED extVars

\* Spaces: the settings button of a space card, rendered for Founder and CTO;
\* SpaceSettings mounts and loadData reads the rows and the members of the space.
openSettings(id) ==
    /\ lastCheck.fn = "none"
    /\ canManage
    /\ selectedSpace = Undefined
    /\ id \in activeSpaces
    /\ selectedSpace' = id
    /\ permissions' = [u \in {v \in UserIds : <<id, v>> \in DOMAIN space_permissions} |->
                          space_permissions[<<id, u>>]]
    /\ UNCHANGED <<PERMISSION_OVERRIDES, space_permissions, lastCheck, users, spaces,
                   space_members, currentUser, allSpaces, activeSpaceId,
                   currentSpacePermission, lookups, showDeleted>>
    /\ UNCHANGED extVars

onClose ==
    /\ lastCheck.fn = "none"
    /\ selectedSpace # Undefined
    /\ selectedSpace' = Undefined
    /\ permissions' = <<>>
    /\ UNCHANGED <<PERMISSION_OVERRIDES, space_permissions, lastCheck, users, spaces,
                   space_members, currentUser, allSpaces, activeSpaceId,
                   currentSpacePermission, lookups, showDeleted>>
    /\ UNCHANGED extVars

\* SpaceSettings: a user of the Add Member list is added with the defaults of
\* the user's role as the new SpacePermission row.
handleAddMember(userId) ==
    /\ lastCheck.fn = "none"
    /\ selectedSpace # Undefined
    /\ canManage
    /\ <<selectedSpace, userId>> \notin DOMAIN space_members
    /\ users[userId] # "Founder"
    /\ LET defaults == IF users[userId] \in DOMAIN DEFAULT_SPACE_PERMISSIONS
                       THEN DEFAULT_SPACE_PERMISSIONS[users[userId]] ELSE {}
           newPerm == {"canView"} \cup (defaults \ {"canView"})
       IN  /\ space_members' =
                 Upsert(space_members,
                        [k \in {<<selectedSpace, userId>>} |-> "Space Contributor"])
           /\ space_permissions' =
                 Upsert(space_permissions, [k \in {<<selectedSpace, userId>>} |-> newPerm])
           /\ permissions' = [u \in DOMAIN permissions \cup {userId} |->
                                 IF u = userId THEN newPerm ELSE permissions[u]]
    /\ UNCHANGED <<PERMISSION_OVERRIDES, lastCheck, users, spaces, currentUser, allSpaces,
                   activeSpaceId, currentSpacePermission, lookups, selectedSpace,
                   showDeleted>>
    /\ UNCHANGED extVars

\* SpaceSettings: a member who is no Founder is removed, with the member's row.
handleRemoveMember(userId) ==
    /\ lastCheck.fn = "none"
    /\ selectedSpace # Undefined
    /\ canManage
    /\ <<selectedSpace, userId>> \in DOMAIN space_members
    /\ users[userId] # "Founder"
    /\ space_members' = Without(space_members, <<selectedSpace, userId>>)
    /\ space_permissions' = Without(space_permissions, <<selectedSpace, userId>>)
    /\ permissions' = [u \in DOMAIN permissions \ {userId} |-> permissions[u]]
    /\ UNCHANGED <<PERMISSION_OVERRIDES, lastCheck, users, spaces, currentUser, allSpaces,
                   activeSpaceId, currentSpacePermission, lookups, selectedSpace,
                   showDeleted>>
    /\ UNCHANGED extVars

\* SpaceSettings: a checkbox of the permissions tab; only a Founder can change it.
togglePermission(userId, key) ==
    /\ lastCheck.fn = "none"
    /\ selectedSpace # Undefined
    /\ isFounder
    /\ <<selectedSpace, userId>> \in DOMAIN space_members
    /\ users[userId] # "Founder"
    /\ LET current == IF userId \in DOMAIN permissions THEN permissions[userId]
                      ELSE {"canView"}
           toggled == IF key \in current THEN current \ {key} ELSE current \cup {key}
       IN  permissions' = [u \in DOMAIN permissions \cup {userId} |->
                              IF u = userId THEN toggled ELSE permissions[u]]
    /\ UNCHANGED <<PERMISSION_OVERRIDES, space_permissions, lastCheck, users, spaces,
                   space_members, currentUser, allSpaces, activeSpaceId,
                   currentSpacePermission, lookups, selectedSpace, showDeleted>>
    /\ UNCHANGED extVars

\* SpaceSettings: Save Permissions, rendered for a Founder, upserts every edited row.
handleSavePermissions ==
    /\ lastCheck.fn = "none"
    /\ selectedSpace # Undefined
    /\ isFounder
    /\ space_permissions' =
          Upsert(space_permissions,
                 [k \in {<<selectedSpace, u>> : u \in DOMAIN permissions} |-> permissions[k[2]]])
    /\ UNCHANGED <<PERMISSION_OVERRIDES, lastCheck, users, spaces, space_members,
                   currentUser, allSpaces, activeSpaceId, currentSpacePermission, lookups,
                   selectedSpace, permissions, showDeleted>>
    /\ UNCHANGED extVars

\* SpaceSettings: Delete Space of the danger tab, rendered when canManage; the
\* modal closes afterwards.
handleSoftDelete ==
    /\ lastCheck.fn = "none"
    /\ selectedSpace # Undefined
    /\ canManage
    /\ softDeleteSpace(selectedSpace)
    /\ selectedSpace' = Undefined
    /\ permissions' = <<>>
    /\ UNCHANGED <<PERMISSION_OVERRIDES, space_permissions, lastCheck, users,
                   space_members, currentUser, lookups, showDeleted>>
    /\ UNCHANGED extVars

CallCheckPermission ==
    /\ lastCheck.fn = "none"
    /\ lastCheck' = [fn |-> "checkPermission",
                     result |-> [p \in Permission |-> checkPermission(p)]]
    /\ UNCHANGED <<PERMISSION_OVERRIDES, space_permissions, storeVars>>
    /\ UNCHANGED extVars

CallCheckSpacePermission ==
    /\ lastCheck.fn = "none"
    /\ lastCheck' = [fn |-> "checkSpacePermission",
                     result |-> [f \in SpaceFlags |-> checkSpacePermission(f)]]
    /\ UNCHANGED <<PERMISSION_OVERRIDES, space_permissions, storeVars>>
    /\ UNCHANGED extVars

NextStore ==
    \/ \E u \in UserIds : handleSession(u)
    \/ logout
    \/ \E s \in SpaceIds \cup {Undefined} : setActiveSpace(s)
    \/ \E req \in lookups : LookupResponse(req)
    \/ \E s \in SpaceIds : handleDeleteSpace(s)
    \/ toggleShowDeleted
    \/ \E s \in SpaceIds : handleRestoreSpace(s)
    \/ \E s \in SpaceIds : openSettings(s)
    \/ onClose
    \/ \E u \in UserIds : handleAddMember(u)
    \/ \E u \in UserIds : handleRemoveMember(u)
    \/ \E u \in UserIds, k \in ToggleKeys : togglePermission(u, k)
    \/ handleSavePermissions
    \/ handleSoftDelete
    \/ CallCheckPermission
    \/ CallCheckSpacePermission
    \/ ReturnCheck

SpecStore == InitStore /\ [][NextStore]_vars

-----------------------------------------------------------------------------
(* The trash of the Spaces screen: soft delete and restore next to the     *)
(* operations that change a space's fields and the issues of a space.      *)

IssueIds == {"i1", "i2"}

SpaceNames == {"Backend", "Platform"}

SpaceTypes == {"general", "backend"}

\* The store's updateSpace: the row of the table, then the local entry.
updateSpace(space) ==
    /\ spaces' = [s \in DOMAIN spaces |->
                     IF s = space.id
                     THEN [spaces[s] EXCEPT !.name = space.name, !.type = space.type]
                     ELSE spaces[s]]
    /\ allSpaces' = [s \in DOMAIN allSpaces |->
                        IF s = space.id
                        THEN [allSpaces[s] EXCEPT !.name = space.name, !.type = space.type]
                        ELSE allSpaces[s]]

\* SpaceSettings: Save Changes of the general tab, rendered when canManage.
handleSaveGeneral(name, spaceType) ==
    /\ lastCheck.fn = "none"
    /\ selectedSpace # Undefined
    /\ canManage
    /\ updateSpace([id |-> selectedSpace, name |-> name, type |-> spaceType])
    /\ UNCHANGED <<PERMISSION_OVERRIDES, space_permissions, lastCheck, users,
                   space_members, currentUser, activeSpaceId, currentSpacePermission,
                   lookups, selectedSpace, permissions, showDeleted>>
    /\ UNCHANGED extVars

\* The store's addIssue: the new issue belongs to the active space, or to none;
\* it is added to the local list, inserted, and with an active space the
\* activity task_created is sent (logged says that its insert succeeds).
addIssue(id) ==
    /\ lastCheck.fn = "none"
    /\ currentUser # Undefined
    /\ selectedSpace = Undefined
    /\ id \notin DOMAIN issues \cup DOMAIN rawIssues
    /\ LET newIssue == Issue("TODO", Undefined, Undefined, Undefined, activeSpaceId)
       IN  /\ rawIssues' = [i \in DOMAIN rawIssues \cup {id} |->
                                IF i = id THEN newIssue ELSE rawIssues[i]]
           /\ issues' = [i \in DOMAIN issues \cup {id} |->
                             IF i = id THEN newIssue ELSE issues[i]]
    /\ \E logged \in BOOLEAN :
          activities' = IF activeSpaceId # Undefined /\ logged
                        THEN Append(activities,
                                    Activity("act-now", activeSpaceId, "task_created"))
                        ELSE activities
    /\ UNCHANGED <<PERMISSION_OVERRIDES, space_permissions, lastCheck, storeVars>>
    /\ UNCHANGED <<inviteVars, codeVars, teamVars, isSupabaseConfigured, notifications,
                   storeCall, sprints, allSprints, orgVars, createCalls>>

InitTrash ==
    /\ PERMISSION_OVERRIDES = <<>>
    /\ space_permissions = <<>>
    /\ lastCheck = NoCheck
    /\ users \in {[u \in UserIds |-> IF u = "u1" THEN r ELSE "Founder"] :
                     r \in {"CTO", "Developer"}}
    /\ spaces = [s \in {"s1"} |-> [createdBy |-> "u2", deletedAt |-> Undefined,
                                    name |-> "Backend", type |-> "general"]]
    /\ space_members = <<>>
    /\ currentUser = Undefined
    /\ allSpaces = <<>>
    /\ activeSpaceId = Undefined
    /\ currentSpacePermission = NoRow
    /\ lookups = {}
    /\ selectedSpace = Undefined
    /\ permissions = <<>>
    /\ showDeleted = FALSE
    /\ issues = [i \in {"i1"} |-> Issue("TODO", Undefined, Undefined, Undefined, "s1")]
    /\ InviteIdle
    /\ RestIdle

NextTrash ==
    \/ \E u \in UserIds : handleSession(u)
    \/ logout
    \/ \E s \in SpaceIds \cup {Undefined} : setActiveSpace(s)
    \/ \E req \in lookups : LookupResponse(req)
    \/ \E s \in SpaceIds : handleDeleteSpace(s)
    \/ toggleShowDeleted
    \/ \E s \in SpaceIds : handleRestoreSpace(s)
    \/ \E s \in SpaceIds : openSettings(s)
    \/ onClose
    \/ \E n \in SpaceNames, ty \in SpaceTypes : handleSaveGeneral(n, ty)
    \/ handleSoftDelete
    \/ \E i \in IssueIds : addIssue(i)

SpecTrash == InitTrash /\ [][NextTrash]_vars

-----------------------------------------------------------------------------
(* Invites (api.acceptInvite and its neighbours, the invites table and     *)
(* the member tables with their primary keys).  An acceptInvite call is a  *)
(* sequence of requests to the tables; two calls interleave between them.  *)

InviteIds == {"inv1"}

Tokens == {"t1", "t2"}

CallIds == {"c1", "c2"}

InviteType == {"organization", "workspace", "space"}

\* profiles.email of the users.
Email == [u \in UserIds |-> IF u = "u1" THEN "a@x" ELSE "b@x"]

\* The entity an invite of a type points to, and the role it assigns.
TargetOf == [ty \in InviteType |->
               CASE ty = "organization" -> "o1" [] ty = "workspace" -> "w1" [] ty = "space" -> "s1"]

RoleOf == [ty \in InviteType |->
             CASE ty = "organization" -> "Manager"
               [] ty = "workspace" -> "Workspace Manager"
               [] ty = "space" -> "Space Owner"]

\* workspaces.orgId of the workspace (of the space's project's workspace).
OrgIdOf == [ty \in {"workspace", "space"} |-> "o1"]

\* acceptedAt of an invite that was not accepted (no timestamp).
NoTime == -1

\* The lifetime of an invite (7 days) and the end of the clock, in ticks.
InviteTTL == 1

MaxNow == 2

\* Error messages of acceptInvite; the last two come from the storage layer.
InviteNotFound == "Invite not found"

InviteNoLongerValid == "Invite is no longer valid"

InviteHasExpired == "Invite has expired"

DuplicateKey == "duplicate key value violates unique constraint"

UpdateError == "error.message"

\* retryOf names the failed call with the same arguments that this call repeats.
Call(pc, token, userId, invite, error, retryOf) ==
    [pc |-> pc, token |-> token, userId |-> userId, invite |-> invite, error |-> error,
     retryOf |-> retryOf]

NoCall == Call("idle", Undefined, Undefined, Undefined, Undefined, Undefined)

\* insert into a table with a primary key: the table, or the duplicate-key error.
CanInsert(table, key) == key \notin DOMAIN table

Insert(table, key, row) == [k \in DOMAIN table \cup {key} |-> IF k = key THEN row ELSE table[k]]

\* The member table of an invite type.
MemberTable(ty) ==
    CASE ty = "organization" -> org_members
      [] ty = "workspace" -> workspace_members
      [] ty = "space" -> space_members

getInviteByToken(token) == {i \in DOMAIN invites : invites[i].token = token}

InitInvite ==
    /\ PERMISSION_OVERRIDES = <<>>
    /\ space_permissions = <<>>
    /\ lastCheck = NoCheck
    /\ StoreIdle
    /\ issues = <<>>
    /\ \E ty \in InviteType :
          invites = [i \in InviteIds |->
                        [email |-> "a@x", type |-> ty, targetId |-> TargetOf[ty],
                         role |-> RoleOf[ty], status |-> "pending", token |-> "t1",
                         expiresAt |-> InviteTTL, acceptedAt |-> NoTime]]
    /\ org_members \in {<<>>, [k \in {<<"o1", "u1">>} |-> "Admin"]}
    /\ workspace_members = <<>>
    /\ acceptCalls = [c \in CallIds |-> NoCall]
    /\ now = 0
    /\ RestIdle

\* Mutant: the expiry is left to the sweep.
acceptInvite_NoExpiryCheck(c, token, userId) ==
    /\ acceptCalls[c].pc = "idle"
    /\ LET found == getInviteByToken(token)
           Fail(msg) == Call("failed", token, userId, Undefined, msg, Undefined)
       IN  acceptCalls' = [acceptCalls EXCEPT ![c] =
              IF ~isSupabaseConfigured
              THEN Call("done", token, userId, Undefined, Undefined, Undefined)
              ELSE IF found = {} THEN Fail(InviteNotFound)
              ELSE LET i == CHOOSE x \in found : TRUE
                   IN  IF invites[i].status # "pending" THEN Fail(InviteNoLongerValid)
                       ELSE Call(IF invites[i].type = "organization"
                                 THEN "addMember" ELSE "getOrgMemberRole",
                                 token, userId, i, Undefined, Undefined)]
    /\ UNCHANGED <<PERMISSION_OVERRIDES, space_permissions, lastCheck, storeVars, issues,
                   invites, org_members, workspace_members, now>>
    /\ UNCHANGED restVars

\* acceptInvite(token, userId) up to its first request: the invite is read
\* and checked.  Without a configured client the call returns at once.
acceptInvite(c, token, userId) ==
    /\ acceptCalls[c].pc = "idle"
    /\ LET found == getInviteByToken(token)
           failedBefore == {d \in CallIds \ {c} : /\ acceptCalls[d].pc = "failed"
                                                  /\ acceptCalls[d].token = token
                                                  /\ acceptCalls[d].userId = userId}
           retryOf == IF failedBefore = {} THEN Undefined
                      ELSE CHOOSE d \in failedBefore : TRUE
           Fail(msg) == Call("failed", token, userId, Undefined, msg, retryOf)
       IN  acceptCalls' = [acceptCalls EXCEPT ![c] =
              IF ~isSupabaseConfigured
              THEN Call("done", token, userId, Undefined, Undefined, retryOf)
              ELSE IF found = {} THEN Fail(InviteNotFound)
              ELSE LET i == CHOOSE x \in found : TRUE
                   IN  IF invites[i].status # "pending" THEN Fail(InviteNoLongerValid)
                       ELSE IF invites[i].expiresAt < now THEN Fail(InviteHasExpired)
                       ELSE Call(IF invites[i].type = "organization"
                                 THEN "addMember" ELSE "getOrgMemberRole",
                                 token, userId, i, Undefined, retryOf)]
    /\ UNCHANGED <<PERMISSION_OVERRIDES, space_permissions, lastCheck, storeVars, issues,
                   invites, org_members, workspace_members, now>>
    /\ UNCHANGED restVars

\* Mutant: no implicit org membership.
AcceptGetOrgMemberRole_NoImplicit(c) ==
    /\ acceptCalls[c].pc = "getOrgMemberRole"
    /\ acceptCalls' = [acceptCalls EXCEPT ![c].pc = "addMember"]
    /\ UNCHANGED <<PERMISSION_OVERRIDES, space_permissions, lastCheck, storeVars, issues,
                   invites, org_members, workspace_members, now>>
    /\ UNCHANGED restVars

\* Workspace and space invites: the organization of the target is read and
\* the user's org membership looked up.
AcceptGetOrgMemberRole(c) ==
    /\ acceptCalls[c].pc = "getOrgMemberRole"
    /\ LET orgId == OrgIdOf[invites[acceptCalls[c].invite].type]
           existingOrgMember == <<orgId, acceptCalls[c].userId>> \in DOMAIN org_members
       IN  acceptCalls' = [acceptCalls EXCEPT ![c].pc =
                              IF existingOrgMember THEN "addMember" ELSE "addOrgMember"]
    /\ UNCHANGED <<PERMISSION_OVERRIDES, space_permissions, lastCheck, storeVars, issues,
                   invites, org_members, workspace_members, now>>
    /\ UNCHANGED restVars

\* Workspace and space invites: the implicit org membership is inserted.
AcceptAddOrgMember(c) ==
    /\ acceptCalls[c].pc = "addOrgMember"
    /\ LET key == <<OrgIdOf[invites[acceptCalls[c].invite].type], acceptCalls[c].userId>>
       IN  IF CanInsert(org_members, key)
           THEN /\ org_members' = Insert(org_members, key, "Member")
                /\ acceptCalls' = [acceptCalls EXCEPT ![c].pc = "addMember"]
           ELSE /\ acceptCalls' = [acceptCalls EXCEPT ![c].pc = "failed",
                                                      ![c].error = DuplicateKey]
                /\ UNCHANGED org_members
    /\ UNCHANGED <<PERMISSION_OVERRIDES, space_permissions, lastCheck, storeVars, issues,
                   invites, workspace_members, now>>
    /\ UNCHANGED restVars

\* The membership of the invite's tier is inserted with the invite's role.
AcceptAddMember(c) ==
    /\ acceptCalls[c].pc = "addMember"
    /\ LET invite == invites[acceptCalls[c].invite]
           key == <<invite.targetId, acceptCalls[c].userId>>
           ok == CanInsert(MemberTable(invite.type), key)
       IN  /\ acceptCalls' =
                 IF ok THEN [acceptCalls EXCEPT ![c].pc = "updateInvite"]
                 ELSE [acceptCalls EXCEPT ![c].pc = "failed", ![c].error = DuplicateKey]
           /\ org_members' =
                 IF ok /\ invite.type = "organization"
                 THEN Insert(org_members, key, invite.role) ELSE org_members
           /\ workspace_members' =
                 IF ok /\ invite.type = "workspace"
                 THEN Insert(workspace_members, key, invite.role) ELSE workspace_members
           /\ space_members' =
                 IF ok /\ invite.type = "space"
                 THEN Insert(space_members, key, invite.role) ELSE space_members
    /\ UNCHANGED <<PERMISSION_OVERRIDES, space_permissions, lastCheck, users, spaces,
                   currentUser, allSpaces, activeSpaceId, currentSpacePermission, lookups,
                   selectedSpace, permissions, showDeleted, issues, invites, now>>
    /\ UNCHANGED restVars

\* The invite is marked accepted: update ... where id = invite.id.
AcceptUpdateInvite(c) ==
    /\ acceptCalls[c].pc = "updateInvite"
    /\ invites' = [invites EXCEPT ![acceptCalls[c].invite] =
                      [@ EXCEPT !.status = "accepted", !.acceptedAt = now]]
    /\ acceptCalls' = [acceptCalls EXCEPT ![c].pc = "done"]
    /\ UNCHANGED <<PERMISSION_OVERRIDES, space_permissions, lastCheck, storeVars, issues,
                   org_members, workspace_members, now>>
    /\ UNCHANGED restVars

\* The update of the invite returns an error, which acceptInvite throws: the
\* membership is created, the invite is still pending.
AcceptUpdateFails(c) ==
    /\ acceptCalls[c].pc = "updateInvite"
    /\ acceptCalls' = [acceptCalls EXCEPT ![c].pc = "failed", ![c].error = UpdateError]
    /\ UNCHANGED <<PERMISSION_OVERRIDES, space_permissions, lastCheck, storeVars, issues,
                   invites, org_members, workspace_members, now>>
    /\ UNCHANGED restVars

rejectInvite(inviteId) ==
    /\ inviteId \in DOMAIN invites
    /\ invites' = [invites EXCEPT ![inviteId].status = "rejected"]
    /\ UNCHANGED <<PERMISSION_OVERRIDES, space_permissions, lastCheck, storeVars, issues,
                   org_members, workspace_members, acceptCalls, now>>
    /\ UNCHANGED restVars

\* resendInvite: a new token, a new expiry, status pending.  The model has one
\* fresh token.
resendInvite(inviteId) ==
    /\ invites[inviteId].token = "t1"
    /\ invites' = [invites EXCEPT ![inviteId] =
                      [@ EXCEPT !.token = "t2", !.expiresAt = now + InviteTTL,
                                !.status = "pending"]]
    /\ UNCHANGED <<PERMISSION_OVERRIDES, space_permissions, lastCheck, storeVars, issues,
                   org_members, workspace_members, acceptCalls, now>>
    /\ UNCHANGED restVars

\* The sweep: pending invites past expiresAt become expired.
expire_old_invites ==
    /\ \E i \in DOMAIN invites : invites[i].status = "pending" /\ invites[i].expiresAt < now
    /\ invites' = [i \in DOMAIN invites |->
                      IF invites[i].status = "pending" /\ invites[i].expiresAt < now
                      THEN [invites[i] EXCEPT !.status = "expired"] ELSE invites[i]]
    /\ UNCHANGED <<PERMISSION_OVERRIDES, space_permissions, lastCheck, storeVars, issues,
                   org_members, workspace_members, acceptCalls, now>>
    /\ UNCHANGED restVars

Tick ==
    /\ now < MaxNow
    /\ now' = now + 1
    /\ UNCHANGED <<PERMISSION_OVERRIDES, space_permissions, lastCheck, storeVars, issues,
                   invites, org_members, workspace_members, acceptCalls>>
    /\ UNCHANGED restVars

NextInvite ==
    \/ \E c \in CallIds, token \in Tokens, u \in UserIds : acceptInvite(c, token, u)
    \/ \E c \in CallIds : AcceptGetOrgMemberRole(c)
    \/ \E c \in CallIds : AcceptAddOrgMember(c)
    \/ \E c \in CallIds : AcceptAddMember(c)
    \/ \E c \in CallIds : AcceptUpdateInvite(c)
    \/ \E c \in CallIds : AcceptUpdateFails(c)
    \/ \E i \in InviteIds : rejectInvite(i)
    \/ \E i \in InviteIds : resendInvite(i)
    \/ expire_old_invites
    \/ Tick

SpecInvite == InitInvite /\ [][NextInvite]_vars

-----------------------------------------------------------------------------
(* The add-member operations of the api service, called directly.          *)

OrgIds == {"o1"}

WorkspaceIds == {"w1"}

\* The outcome of an insert: the key and the error thrown, if any; without a
\* configured client no insert is sent and nothing is thrown.
InsertResult(table, key) ==
    [key |-> key,
     error |-> IF isSupabaseConfigured /\ ~CanInsert(table, key) THEN DuplicateKey
               ELSE Undefined]

InitMember ==
    /\ PERMISSION_OVERRIDES = <<>>
    /\ space_permissions = <<>>
    /\ lastCheck = NoCheck
    /\ StoreIdle
    /\ ExtIdle

addOrgMember(member) ==
    /\ lastCheck.fn = "none"
    /\ LET key == <<member.orgId, member.userId>>
       IN  /\ lastCheck' = [fn |-> "addOrgMember", result |-> InsertResult(org_members, key)]
           /\ org_members' = IF isSupabaseConfigured /\ CanInsert(org_members, key)
                             THEN Insert(org_members, key, member.role) ELSE org_members
    /\ UNCHANGED <<PERMISSION_OVERRIDES, space_permissions, storeVars, issues, invites,
                   workspace_members, acceptCalls, now>>
    /\ UNCHANGED restVars

addWorkspaceMember(member) ==
    /\ lastCheck.fn = "none"
    /\ LET key == <<member.workspaceId, member.userId>>
       IN  /\ lastCheck' = [fn |-> "addWorkspaceMember",
                            result |-> InsertResult(workspace_members, key)]
           /\ workspace_members' = IF isSupabaseConfigured /\ CanInsert(workspace_members, key)
                                   THEN Insert(workspace_members, key, member.role)
                                   ELSE workspace_members
    /\ UNCHANGED <<PERMISSION_OVERRIDES, space_permissions, storeVars, issues, invites,
                   org_members, acceptCalls, now>>
    /\ UNCHANGED restVars

\* api.addSpaceMember; a member without a role gets the column's default.
api_addSpaceMember(member) ==
    /\ lastCheck.fn = "none"
    /\ LET key == <<member.spaceId, member.userId>>
       IN  /\ lastCheck' = [fn |-> "addSpaceMember",
                            result |-> InsertResult(space_members, key)]
           /\ space_members' = IF isSupabaseConfigured /\ CanInsert(space_members, key)
                               THEN Insert(space_members, key, "Space Contributor")
                               ELSE space_members
    /\ UNCHANGED <<PERMISSION_OVERRIDES, space_permissions, users, spaces, currentUser,
                   allSpaces, activeSpaceId, currentSpacePermission, lookups,
                   selectedSpace, permissions, showDeleted, extVars>>

NextMember ==
    \/ \E o \in OrgIds, u \in UserIds, r \in {"Member", "Admin"} :
          addOrgMember([orgId |-> o, userId |-> u, role |-> r])
    \/ \E w \in WorkspaceIds, u \in UserIds :
          addWorkspaceMember([workspaceId |-> w, userId |-> u, role |-> "Workspace Member"])
    \/ \E s \in SpaceIds, u \in UserIds :
          api_addSpaceMember([spaceId |-> s, userId |-> u])
    \/ ReturnCheck

SpecMember == InitMember /\ [][NextMember]_vars

-----------------------------------------------------------------------------
(* The six-digit codes of organizations, workspaces and projects: the      *)
(* BEFORE INSERT trigger auto_generate_code and generate_numeric_code.     *)
(* Each table has its own UNIQUE constraint on the column.                 *)

CodeTables == {"organizations", "workspaces", "projects"}

\* The codes that RANDOM() yields in the model.
Codes == {"100000", "100001"}

InsertIds == {"x1", "x2"}

NoInsert == [pc |-> "idle", table |-> Undefined, new_code |-> Undefined]

InitCode ==
    /\ PERMISSION_OVERRIDES = <<>>
    /\ space_permissions = <<>>
    /\ lastCheck = NoCheck
    /\ StoreIdle
    /\ issues = <<>>
    /\ InviteIdle
    /\ TeamIdle
    /\ MoreIdle
    /\ codes = [tb \in CodeTables |-> {}]
    /\ inserts = [x \in InsertIds |-> NoInsert]

\* A row without a code is inserted: the trigger calls the generator.
auto_generate_code(x, tb) ==
    /\ inserts[x].pc = "idle"
    /\ inserts' = [inserts EXCEPT ![x] = [pc |-> "generate", table |-> tb,
                                          new_code |-> Undefined]]
    /\ UNCHANGED <<PERMISSION_OVERRIDES, space_permissions, lastCheck, storeVars, issues,
                   inviteVars, teamVars, moreVars, codes>>

\* One turn of the generator's loop: a random code, the look-up in the three
\* tables, and the exit when the code is in none of them.
generate_numeric_code(x, new_code) ==
    /\ inserts[x].pc = "generate"
    /\ LET code_exists == \E tb \in CodeTables : new_code \in codes[tb]
       IN  inserts' = IF code_exists THEN inserts
                      ELSE [inserts EXCEPT ![x].pc = "insert", ![x].new_code = new_code]
    /\ UNCHANGED <<PERMISSION_OVERRIDES, space_permissions, lastCheck, storeVars, issues,
                   inviteVars, teamVars, moreVars, codes>>

\* The row is inserted; the table's UNIQUE constraint rejects a code that the
\* table holds by now.
InsertRow(x) ==
    /\ inserts[x].pc = "insert"
    /\ codes' = IF inserts[x].new_code \in codes[inserts[x].table] THEN codes
                ELSE [codes EXCEPT ![inserts[x].table] = @ \cup {inserts[x].new_code}]
    /\ inserts' = [inserts EXCEPT ![x] = NoInsert]
    /\ UNCHANGED <<PERMISSION_OVERRIDES, space_permissions, lastCheck, storeVars, issues,
                   inviteVars, teamVars, moreVars>>

NextCode ==
    \/ \E x \in InsertIds, tb \in CodeTables : auto_generate_code(x, tb)
    \/ \E x \in InsertIds, c \in Codes : generate_numeric_code(x, c)
    \/ \E x \in InsertIds : InsertRow(x)

SpecCode == InitCode /\ [][NextCode]_vars

-----------------------------------------------------------------------------
(* Team members (api.createTeamMember and its neighbours, the team_members *)
(* table with UNIQUE (scopeId, email)).                                    *)

ScopeIds == {"o1", "w1"}

EmailInputs == {"a@x", "A@x", "b@x"}

toLowerCase == [e \in EmailInputs |-> IF e = "A@x" THEN "a@x" ELSE e]

AlreadyExists == "A member with this email already exists"

NoTeamCall == [pc |-> "idle", scopeId |-> Undefined, email |-> Undefined,
               error |-> Undefined]

\* getTeamMemberByEmail: the active row of the email in the scope, if any.
getTeamMemberByEmail(email, scopeId) ==
    {k \in DOMAIN team_members :
        k = <<scopeId, toLowerCase[email]>> /\ team_members[k].isActive}

InitTeam ==
    /\ PERMISSION_OVERRIDES = <<>>
    /\ space_permissions = <<>>
    /\ lastCheck = NoCheck
    /\ StoreIdle
    /\ issues = <<>>
    /\ InviteIdle
    /\ CodeIdle
    /\ MoreIdle
    /\ team_members = <<>>
    /\ teamCall = NoTeamCall

\* createTeamMember up to its insert: the look-up of an existing member.
createTeamMember(member) ==
    /\ teamCall.pc = "idle"
    /\ teamCall' =
          IF getTeamMemberByEmail(member.email, member.scopeId) # {}
          THEN [pc |-> "returned", scopeId |-> member.scopeId, email |-> member.email,
                error |-> AlreadyExists]
          ELSE [pc |-> "insert", scopeId |-> member.scopeId, email |-> member.email,
                error |-> Undefined]
    /\ UNCHANGED <<PERMISSION_OVERRIDES, space_permissions, lastCheck, storeVars, issues,
                   inviteVars, codeVars, moreVars, team_members>>

\* createTeamMember's insert of the new row, active, with the lowered email.
CreateTeamMemberInsert ==
    /\ teamCall.pc = "insert"
    /\ LET key == <<teamCall.scopeId, toLowerCase[teamCall.email]>>
       IN  IF CanInsert(team_members, key)
           THEN /\ team_members' = Insert(team_members, key, [isActive |-> TRUE])
                /\ teamCall' = [teamCall EXCEPT !.pc = "returned"]
           ELSE /\ teamCall' = [teamCall EXCEPT !.pc = "returned", !.error = DuplicateKey]
                /\ UNCHANGED team_members
    /\ UNCHANGED <<PERMISSION_OVERRIDES, space_permissions, lastCheck, storeVars, issues,
                   inviteVars, codeVars, moreVars>>

ReturnTeamCall ==
    /\ teamCall.pc = "returned"
    /\ teamCall' = NoTeamCall
    /\ UNCHANGED <<PERMISSION_OVERRIDES, space_permissions, lastCheck, storeVars, issues,
                   inviteVars, codeVars, moreVars, team_members>>

\* TeamMemberManager: the active switch of a member, updateTeamMember(id, {isActive}).
updateTeamMember(key, updates) ==
    /\ key \in DOMAIN team_members
    /\ team_members' = [team_members EXCEPT ![key].isActive = updates.isActive]
    /\ UNCHANGED <<PERMISSION_OVERRIDES, space_permissions, lastCheck, storeVars, issues,
                   inviteVars, codeVars, moreVars, teamCall>>

deleteTeamMember(key) ==
    /\ key \in DOMAIN team_members
    /\ team_members' = Without(team_members, key)
    /\ UNCHANGED <<PERMISSION_OVERRIDES, space_permissions, lastCheck, storeVars, issues,
                   inviteVars, codeVars, moreVars, teamCall>>

NextTeam ==
    \/ \E s \in ScopeIds, e \in EmailInputs : createTeamMember([scopeId |-> s, email |-> e])
    \/ CreateTeamMemberInsert
    \/ ReturnTeamCall
    \/ \E k \in DOMAIN team_members :
          updateTeamMember(k, [isActive |-> ~team_members[k].isActive])
    \/ \E k \in DOMAIN team_members : deleteTeamMember(k)

SpecTeam == InitTeam /\ [][NextTeam]_vars

-----------------------------------------------------------------------------
(* The life of a space: the soft delete and the restore of the Spaces      *)
(* screen next to the store's deleteSpace, which the Spaces screen of      *)
(* src/unnamed/part_005 calls from its Delete button.                      *)

\* delete from spaces where id = id; the rows of space_members go with it
\* (ON DELETE CASCADE).
DeleteSpacesRow(id) ==
    /\ spaces' = [s \in DOMAIN spaces \ {id} |-> spaces[s]]
    /\ space_members' = [k \in {m \in DOMAIN space_members : m[1] # id} |-> space_members[k]]

\* The store's deleteSpace: api.deleteSpace (ok: the delete succeeds; without
\* a configured client it returns at once), then the local list and the
\* active space.  An error is thrown to the caller before the local change.
deleteSpace(id, ok) ==
    /\ IF isSupabaseConfigured
       THEN IF ok THEN DeleteSpacesRow(id) ELSE UNCHANGED <<spaces, space_members>>
       ELSE UNCHANGED <<spaces, space_members>>
    /\ IF isSupabaseConfigured /\ ~ok
       THEN UNCHANGED <<allSpaces, activeSpaceId, currentSpacePermission>>
       ELSE /\ allSpaces' = [s \in DOMAIN allSpaces \ {id} |-> allSpaces[s]]
            /\ IF activeSpaceId = id
               THEN activeSpaceId' = Undefined /\ currentSpacePermission' = NoRow
               ELSE UNCHANGED <<activeSpaceId, currentSpacePermission>>

\* Spaces (part_005): the Delete button of a space card, rendered when
\* canDeleteSpace for every space of the list, after the confirmation
\* "Delete this space? This cannot be undone.".
handleDeleteSpace_Confirmed(id, ok) ==
    /\ lastCheck.fn = "none"
    /\ selectedSpace = Undefined
    /\ checkPermission("DELETE_SPACE")
    /\ id \in DOMAIN allSpaces
    /\ deleteSpace(id, ok)
    /\ UNCHANGED <<PERMISSION_OVERRIDES, space_permissions, lastCheck, users, currentUser,
                   lookups, selectedSpace, permissions, showDeleted>>
    /\ UNCHANGED extVars

NextLifecycle ==
    \/ \E u \in UserIds : handleSession(u)
    \/ logout
    \/ \E s \in SpaceIds \cup {Undefined} : setActiveSpace(s)
    \/ \E req \in lookups : LookupResponse(req)
    \/ \E s \in SpaceIds : handleDeleteSpace(s)
    \/ toggleShowDeleted
    \/ \E s \in SpaceIds : handleRestoreSpace(s)
    \/ \E s \in SpaceIds : openSettings(s)
    \/ onClose
    \/ \E u \in UserIds : handleAddMember(u)
    \/ \E s \in SpaceIds, ok \in BOOLEAN : handleDeleteSpace_Confirmed(s, ok)

SpecLifecycle == InitTrash /\ [][NextLifecycle]_vars

-----------------------------------------------------------------------------
(* The store's space operations step by step: the request to the table,    *)
(* the code after the await, and the inserts into the audit tables         *)
(* (api.createActivity, api.createNotification and the trigger             *)
(* log_space_activity of the spaces table).                                *)

\* The largest number of activity rows at which the model starts an operation.
MaxActivities == 0

\* A store operation begins: the handler's closure holds the active space and
\* the user of the render it was created in.
BeginStoreCall(fn, id, target) ==
    [fn |-> fn, pc |-> "api", next |-> Undefined, activity |-> NoActivity, id |-> id,
     target |-> target, activeSpaceId |-> activeSpaceId, currentUser |-> currentUser,
     persisted |-> FALSE, apiFailed |-> FALSE, auditFailed |-> FALSE, toasts |-> <<>>,
     error |-> Undefined, startLen |-> Len(activities)]

\* logSpaceActivityInternal: without a user nothing is logged; otherwise the
\* activity is built and handed to api.createActivity.
logSpaceActivityInternal(call, spaceId, action, next) ==
    IF call.currentUser = Undefined THEN [call EXCEPT !.pc = next]
    ELSE [call EXCEPT !.pc = "createActivity", !.next = next,
                      !.activity = Activity("act-now", spaceId, action)]

\* logSpaceActivity: the activity goes to the active space, if there is one.
logSpaceActivity(call, action, next) ==
    IF call.activeSpaceId = Undefined THEN [call EXCEPT !.pc = next]
    ELSE logSpaceActivityInternal(call, call.activeSpaceId, action, next)

showToast(call, type) == [call EXCEPT !.toasts = Append(@, type)]

\* The trigger log_space_activity on an UPDATE of a spaces row.
log_space_activity(old, new, id) ==
    Activity("act-uuid", id,
             IF old.deletedAt = Undefined /\ new.deletedAt # Undefined THEN "space_deleted"
             ELSE IF old.deletedAt # Undefined /\ new.deletedAt = Undefined
                  THEN "space_restored"
                  ELSE "space_updated")

\* update spaces set ... where id = id.  The AFTER UPDATE trigger inserts its
\* activity; when that insert fails (trig is false) the trigger's exception
\* handler lets the update go through.
UpdateSpacesRow(id, new, trig) ==
    IF id \in DOMAIN spaces
    THEN /\ spaces' = [spaces EXCEPT ![id] = new]
         /\ activities' = IF trig THEN Append(activities, log_space_activity(spaces[id], new, id))
                          ELSE activities
    ELSE UNCHANGED <<spaces, activities>>

InitAudit ==
    /\ PERMISSION_OVERRIDES = <<>>
    /\ space_permissions = <<>>
    /\ lastCheck = NoCheck
    /\ users = [u \in UserIds |-> IF u = "u1" THEN "CTO" ELSE "Founder"]
    /\ spaces = [s \in {"s1"} |-> [createdBy |-> "u2", deletedAt |-> Undefined,
                                    name |-> "Backend", type |-> "general"]]
    /\ space_members = <<>>
    /\ currentUser = Undefined
    /\ allSpaces = <<>>
    /\ activeSpaceId = Undefined
    /\ currentSpacePermission = NoRow
    /\ lookups = {}
    /\ selectedSpace = Undefined
    /\ permissions = <<>>
    /\ showDeleted = FALSE
    /\ issues = <<>>
    /\ InviteIdle
    /\ RestIdle

\* Spaces: the trash button of a space card, rendered when canDeleteSpace,
\* calls the store's softDeleteSpace.
handleDeleteSpace_Call(id) ==
    /\ lastCheck.fn = "none"
    /\ storeCall.fn = "none"
    /\ Len(activities) <= MaxActivities
    /\ selectedSpace = Undefined
    /\ checkPermission("DELETE_SPACE")
    /\ id \in activeSpaces
    /\ storeCall' = BeginStoreCall("softDeleteSpace", id, Undefined)
    /\ UNCHANGED <<PERMISSION_OVERRIDES, space_permissions, lastCheck, storeVars, issues,
                   inviteVars, codeVars, teamVars, isSupabaseConfigured, activities,
                   notifications, issueVars, orgVars, createCalls>>

\* Spaces: the Restore button of a card of the trash section calls the
\* store's restoreSpace.
handleRestoreSpace_Call(id) ==
    /\ lastCheck.fn = "none"
    /\ storeCall.fn = "none"
    /\ Len(activities) <= MaxActivities
    /\ selectedSpace = Undefined
    /\ showDeleted
    /\ id \in deletedSpaces
    /\ storeCall' = BeginStoreCall("restoreSpace", id, Undefined)
    /\ UNCHANGED <<PERMISSION_OVERRIDES, space_permissions, lastCheck, storeVars, issues,
                   inviteVars, codeVars, teamVars, isSupabaseConfigured, activities,
                   notifications, issueVars, orgVars, createCalls>>

\* SpaceSettings: Save Changes of the general tab calls the store's updateSpace.
handleSaveGeneral_Call(name, spaceType) ==
    /\ lastCheck.fn = "none"
    /\ storeCall.fn = "none"
    /\ Len(activities) <= MaxActivities
    /\ selectedSpace # Undefined
    /\ canManage
    /\ storeCall' = BeginStoreCall("handleSaveGeneral", selectedSpace,
                                   [name |-> name, type |-> spaceType])
    /\ UNCHANGED <<PERMISSION_OVERRIDES, space_permissions, lastCheck, storeVars, issues,
                   inviteVars, codeVars, teamVars, isSupabaseConfigured, activities,
                   notifications, issueVars, orgVars, createCalls>>

\* SpaceSettings: a user of the Add Member list is chosen; the store's
\* addSpaceMember is called.
handleAddMember_Call(userId) ==
    /\ lastCheck.fn = "none"
    /\ storeCall.fn = "none"
    /\ Len(activities) <= MaxActivities
    /\ selectedSpace # Undefined
    /\ canManage
    /\ <<selectedSpace, userId>> \notin DOMAIN space_members
    /\ users[userId] # "Founder"
    /\ storeCall' = BeginStoreCall("handleAddMember", selectedSpace, userId)
    /\ UNCHANGED <<PERMISSION_OVERRIDES, space_permissions, lastCheck, storeVars, issues,
                   inviteVars, codeVars, teamVars, isSupabaseConfigured, activities,
                   notifications, issueVars, orgVars, createCalls>>

\* api.softDeleteSpace / api.restoreSpace / api.updateSpace: without a
\* configured client the call returns at once; otherwise the row is updated,
\* or the error of the update is thrown.  The store catches the error and
\* shows it; handleSaveGeneral goes on after the store's updateSpace.
api_updateSpaces(ok, trig) ==
    /\ storeCall.pc = "api"
    /\ storeCall.fn \in {"softDeleteSpace", "restoreSpace", "handleSaveGeneral"}
    /\ LET id == storeCall.id
           new == CASE storeCall.fn = "softDeleteSpace" -> [spaces[id] EXCEPT !.deletedAt = "now"]
                    [] storeCall.fn = "restoreSpace" -> [spaces[id] EXCEPT !.deletedAt = Undefined]
                    [] OTHER -> [spaces[id] EXCEPT !.name = storeCall.target.name,
                                                   !.type = storeCall.target.type]
       IN  IF ~isSupabaseConfigured
           THEN /\ storeCall' = [storeCall EXCEPT !.pc = "resume"]
                /\ UNCHANGED <<spaces, activities>>
           ELSE IF ok
           THEN /\ UpdateSpacesRow(id, new, trig)
                /\ storeCall' = [storeCall EXCEPT !.pc = "resume", !.persisted = TRUE,
                                                   !.auditFailed = ~trig]
           ELSE /\ storeCall' =
                     [showToast(storeCall, "error") EXCEPT
                         !.apiFailed = TRUE,
                         !.pc = IF storeCall.fn = "handleSaveGeneral" THEN "handler"
                                ELSE "returned"]
                /\ UNCHANGED <<spaces, activities>>
    /\ UNCHANGED <<PERMISSION_OVERRIDES, space_permissions, lastCheck, users, space_members,
                   currentUser, allSpaces, activeSpaceId, currentSpacePermission, lookups,
                   selectedSpace, permissions, showDeleted, issues, inviteVars, codeVars,
                   teamVars, isSupabaseConfigured, notifications, issueVars, orgVars,
                   createCalls>>

\* The store's softDeleteSpace after the await: the local entry, the active
\* space of the closure, the toast and the activity.
softDeleteSpace_Resume ==
    /\ storeCall.fn = "softDeleteSpace"
    /\ storeCall.pc = "resume"
    /\ allSpaces' = [s \in DOMAIN allSpaces |->
                        IF s = storeCall.id THEN [allSpaces[s] EXCEPT !.deletedAt = "now"]
                        ELSE allSpaces[s]]
    /\ IF storeCall.activeSpaceId = storeCall.id
       THEN activeSpaceId' = Undefined /\ currentSpacePermission' = NoRow
       ELSE UNCHANGED <<activeSpaceId, currentSpacePermission>>
    /\ storeCall' = logSpaceActivityInternal(showToast(storeCall, "success"), storeCall.id,
                                             "space_deleted", "returned")
    /\ UNCHANGED <<PERMISSION_OVERRIDES, space_permissions, lastCheck, users, spaces,
                   space_members, currentUser, lookups, selectedSpace, permissions,
                   showDeleted, issues, inviteVars, codeVars, teamVars,
                   isSupabaseConfigured, activities, notifications, issueVars, orgVars,
                   createCalls>>

restoreSpace_Resume ==
    /\ storeCall.fn = "restoreSpace"
    /\ storeCall.pc = "resume"
    /\ allSpaces' = [s \in DOMAIN allSpaces |->
                        IF s = storeCall.id THEN [allSpaces[s] EXCEPT !.deletedAt = Undefined]
                        ELSE allSpaces[s]]
    /\ storeCall' = logSpaceActivityInternal(showToast(storeCall, "success"), storeCall.id,
                                             "space_restored", "returned")
    /\ UNCHANGED <<PERMISSION_OVERRIDES, space_permissions, lastCheck, users, spaces,
                   space_members, currentUser, activeSpaceId, currentSpacePermission,
                   lookups, selectedSpace, permissions, showDeleted, issues, inviteVars,
                   codeVars, teamVars, isSupabaseConfigured, activities, notifications,
                   issueVars, orgVars, createCalls>>

\* The store's updateSpace after the await.
updateSpace_Resume ==
    /\ storeCall.fn = "handleSaveGeneral"
    /\ storeCall.pc = "resume"
    /\ allSpaces' = [s \in DOMAIN allSpaces |->
                        IF s = storeCall.id
                        THEN [allSpaces[s] EXCEPT !.name = storeCall.target.name,
                                                  !.type = storeCall.target.type]
                        ELSE allSpaces[s]]
    /\ storeCall' = logSpaceActivityInternal(showToast(storeCall, "success"), storeCall.id,
                                             "space_updated", "handler")
    /\ UNCHANGED <<PERMISSION_OVERRIDES, space_permissions, lastCheck, users, spaces,
                   space_members, currentUser, activeSpaceId, currentSpacePermission,
                   lookups, selectedSpace, permissions, showDeleted, issues, inviteVars,
                   codeVars, teamVars, isSupabaseConfigured, activities, notifications,
                   issueVars, orgVars, createCalls>>

\* handleSaveGeneral after the store's updateSpace has returned: the toast
\* and the component's own logSpaceActivity.
handleSaveGeneral_Resume ==
    /\ storeCall.fn = "handleSaveGeneral"
    /\ storeCall.pc = "handler"
    /\ storeCall' = logSpaceActivity(showToast(storeCall, "success"), "space_updated",
                                     "returned")
    /\ UNCHANGED <<PERMISSION_OVERRIDES, space_permissions, lastCheck, storeVars, issues,
                   inviteVars, codeVars, teamVars, isSupabaseConfigured, activities,
                   notifications, issueVars, orgVars, createCalls>>

Notification(id, userId, spaceId) == [id |-> id, userId |-> userId, spaceId |-> spaceId]

\* api.addSpaceMember called by the store's addSpaceMember: the insert into
\* space_members, whose AFTER INSERT trigger notify_space_member inserts its
\* notification or fails quietly.  An error of the insert is thrown through
\* the store to handleAddMember, which shows it.  Otherwise the store goes on
\* to its notification when the space is in the local list.
addSpaceMember_Insert(ok, trig) ==
    /\ storeCall.fn = "handleAddMember"
    /\ storeCall.pc = "api"
    /\ LET key == <<storeCall.id, storeCall.target>>
           next == IF storeCall.id \in DOMAIN allSpaces THEN "createNotification"
                   ELSE "logMemberAdded"
       IN  IF ~isSupabaseConfigured
           THEN /\ storeCall' = [storeCall EXCEPT !.pc = next]
                /\ UNCHANGED <<space_members, notifications>>
           ELSE IF ok /\ CanInsert(space_members, key)
           THEN /\ space_members' = Insert(space_members, key, "Space Contributor")
                /\ notifications' =
                      IF trig THEN Append(notifications,
                                          Notification("notif-uuid", key[2], key[1]))
                      ELSE notifications
                /\ storeCall' = [storeCall EXCEPT !.pc = next, !.persisted = TRUE,
                                                   !.auditFailed = ~trig]
           ELSE /\ storeCall' = [showToast(storeCall, "error") EXCEPT
                                    !.apiFailed = TRUE, !.pc = "returned"]
                /\ UNCHANGED <<space_members, notifications>>
    /\ UNCHANGED <<PERMISSION_OVERRIDES, space_permissions, lastCheck, users, spaces,
                   currentUser, allSpaces, activeSpaceId, currentSpacePermission, lookups,
                   selectedSpace, permissions, showDeleted, issues, inviteVars, codeVars,
                   teamVars, isSupabaseConfigured, activities, issueVars, orgVars,
                   createCalls>>

\* Mutant: the error of the insert is thrown, as handleSupabaseError does.
createNotification_Throws(ok) ==
    /\ storeCall.pc = "createNotification"
    /\ IF isSupabaseConfigured /\ ok
       THEN /\ notifications' = Append(notifications,
                                       Notification("notif-now", storeCall.target, storeCall.id))
            /\ storeCall' = [storeCall EXCEPT !.pc = "logMemberAdded"]
       ELSE /\ storeCall' = [showToast(storeCall, "error") EXCEPT
                                !.auditFailed = isSupabaseConfigured, !.pc = "returned"]
            /\ UNCHANGED notifications
    /\ UNCHANGED <<PERMISSION_OVERRIDES, space_permissions, lastCheck, storeVars, issues,
                   inviteVars, codeVars, teamVars, isSupabaseConfigured, activities,
                   issueVars, orgVars, createCalls>>

\* api.createNotification: the insert; its error is logged to the console.
createNotification(ok) ==
    /\ storeCall.pc = "createNotification"
    /\ IF isSupabaseConfigured /\ ok
       THEN /\ notifications' = Append(notifications,
                                       Notification("notif-now", storeCall.target, storeCall.id))
            /\ storeCall' = [storeCall EXCEPT !.pc = "logMemberAdded"]
       ELSE /\ storeCall' = [storeCall EXCEPT !.auditFailed = @ \/ isSupabaseConfigured,
                                              !.pc = "logMemberAdded"]
            /\ UNCHANGED notifications
    /\ UNCHANGED <<PERMISSION_OVERRIDES, space_permissions, lastCheck, storeVars, issues,
                   inviteVars, codeVars, teamVars, isSupabaseConfigured, activities,
                   issueVars, orgVars, createCalls>>

\* The store's addSpaceMember logs member_added and returns to handleAddMember.
addSpaceMember_Log ==
    /\ storeCall.pc = "logMemberAdded"
    /\ storeCall' = logSpaceActivityInternal(storeCall, storeCall.id, "member_added",
                                             "saveSpacePermissions")
    /\ UNCHANGED <<PERMISSION_OVERRIDES, space_permissions, lastCheck, storeVars, issues,
                   inviteVars, codeVars, teamVars, isSupabaseConfigured, activities,
                   notifications, issueVars, orgVars, createCalls>>

\* The row handleAddMember builds for a new member from the defaults of the role.
newPerm(userId) ==
    LET defaults == IF users[userId] \in DOMAIN DEFAULT_SPACE_PERMISSIONS
                    THEN DEFAULT_SPACE_PERMISSIONS[users[userId]] ELSE {}
    IN  {"canView"} \cup (defaults \ {"canView"})

\* handleAddMember goes on with the store's saveSpacePermissions: the upsert
\* of api.updateSpacePermissions, the toast and the activity; an error of the
\* upsert is thrown to handleAddMember, which shows it.
saveSpacePermissions(ok) ==
    /\ storeCall.pc = "saveSpacePermissions"
    /\ LET key == <<storeCall.id, storeCall.target>>
       IN  IF isSupabaseConfigured /\ ~ok
           THEN /\ storeCall' = [showToast(storeCall, "error") EXCEPT
                                    !.apiFailed = TRUE, !.pc = "returned"]
                /\ UNCHANGED space_permissions
           ELSE /\ space_permissions' =
                      IF isSupabaseConfigured
                      THEN Upsert(space_permissions, [k \in {key} |-> newPerm(key[2])])
                      ELSE space_permissions
                /\ storeCall' = logSpaceActivityInternal(showToast(storeCall, "success"),
                                                         storeCall.id, "permission_updated",
                                                         "handler")
    /\ UNCHANGED <<PERMISSION_OVERRIDES, lastCheck, storeVars, issues, inviteVars, codeVars,
                   teamVars, isSupabaseConfigured, activities, notifications, issueVars,
                   orgVars, createCalls>>

\* handleAddMember after saveSpacePermissions: the edited rows, the toast and
\* the component's own logSpaceActivity.
handleAddMember_Resume ==
    /\ storeCall.fn = "handleAddMember"
    /\ storeCall.pc = "handler"
    /\ permissions' = [u \in DOMAIN permissions \cup {storeCall.target} |->
                          IF u = storeCall.target THEN newPerm(u) ELSE permissions[u]]
    /\ storeCall' = logSpaceActivity(showToast(storeCall, "success"), "member_added",
                                     "returned")
    /\ UNCHANGED <<PERMISSION_OVERRIDES, space_permissions, lastCheck, users, spaces,
                   space_members, currentUser, allSpaces, activeSpaceId,
                   currentSpacePermission, lookups, selectedSpace, showDeleted, issues,
                   inviteVars, codeVars, teamVars, isSupabaseConfigured, activities,
                   notifications, issueVars, orgVars, createCalls>>

\* Mutant: the insert is awaited and its error thrown to the caller.
createActivity_Throws(ok) ==
    /\ storeCall.pc = "createActivity"
    /\ IF isSupabaseConfigured /\ ok
       THEN /\ activities' = Append(activities, storeCall.activity)
            /\ storeCall' = [storeCall EXCEPT !.pc = storeCall.next]
       ELSE /\ storeCall' = [showToast(storeCall, "error") EXCEPT
                                !.auditFailed = isSupabaseConfigured, !.pc = "returned"]
            /\ UNCHANGED activities
    /\ UNCHANGED <<PERMISSION_OVERRIDES, space_permissions, lastCheck, storeVars, issues,
                   inviteVars, codeVars, teamVars, isSupabaseConfigured, notifications,
                   issueVars, orgVars, createCalls>>

\* api.createActivity: the insert is sent and not waited for; its error is
\* logged to the console.
createActivity(ok) ==
    /\ storeCall.pc = "createActivity"
    /\ IF isSupabaseConfigured /\ ok
       THEN /\ activities' = Append(activities, storeCall.activity)
            /\ storeCall' = [storeCall EXCEPT !.pc = storeCall.next]
       ELSE /\ storeCall' = [storeCall EXCEPT !.auditFailed = @ \/ isSupabaseConfigured,
                                              !.pc = storeCall.next]
            /\ UNCHANGED activities
    /\ UNCHANGED <<PERMISSION_OVERRIDES, space_permissions, lastCheck, storeVars, issues,
                   inviteVars, codeVars, teamVars, isSupabaseConfigured, notifications,
                   issueVars, orgVars, createCalls>>

\* The handler has returned; the next operation can begin.
ReturnStoreCall ==
    /\ storeCall.pc = "returned"
    /\ storeCall' = NoStoreCall
    /\ UNCHANGED <<PERMISSION_OVERRIDES, space_permissions, lastCheck, storeVars, issues,
                   inviteVars, codeVars, teamVars, isSupabaseConfigured, activities,
                   notifications, issueVars, orgVars, createCalls>>

NextAudit ==
    \/ \E u \in UserIds : handleSession(u)
    \/ \E s \in SpaceIds \cup {Undefined} : setActiveSpace(s)
    \/ \E req \in lookups : LookupResponse(req)
    \/ toggleShowDeleted
    \/ \E s \in SpaceIds : openSettings(s)
    \/ onClose
    \/ \E s \in SpaceIds : handleDeleteSpace_Call(s)
    \/ \E s \in SpaceIds : handleRestoreSpace_Call(s)
    \/ \E n \in SpaceNames, ty \in SpaceTypes : handleSaveGeneral_Call(n, ty)
    \/ \E u \in UserIds : handleAddMember_Call(u)
    \/ \E ok, trig \in BOOLEAN : api_updateSpaces(ok, trig)
    \/ softDeleteSpace_Resume
    \/ restoreSpace_Resume
    \/ updateSpace_Resume
    \/ handleSaveGeneral_Resume
    \/ \E ok, trig \in BOOLEAN : addSpaceMember_Insert(ok, trig)
    \/ \E ok \in BOOLEAN : createNotification(ok)
    \/ addSpaceMember_Log
    \/ \E ok \in BOOLEAN : saveSpacePermissions(ok)
    \/ handleAddMember_Resume
    \/ \E ok \in BOOLEAN : createActivity(ok)
    \/ ReturnStoreCall

SpecAudit == InitAudit /\ [][NextAudit]_vars

-----------------------------------------------------------------------------
(* Issues and sprints: the store's updateIssue and completeSprint, the     *)
(* api's updateIssue and the realtime channel of the issues table.         *)

SprintIds == {"sp1"}

IssueFields == {"status", "sprintId", "epicId", "assigneeId", "spaceId"}

\* The updates the board and the issue modal send: a move to another column,
\* a new assignee.
UpdateInputs == {[status |-> "DONE"], [assigneeId |-> "u1"]}

\* { ...i, ...updates }
Merge(row, updates) ==
    [f \in IssueFields |-> IF f \in DOMAIN updates THEN updates[f] ELSE row[f]]

\* The payload of api.updateIssue for the issue { id, ...updates }: the four
\* optional references are always part of it, null when the issue has none.
updateIssuePayload(updates) ==
    [f \in DOMAIN updates \cup {"sprintId", "epicId", "assigneeId", "spaceId"} |->
        IF f \in DOMAIN updates THEN updates[f] ELSE Undefined]

\* update issues set payload where id = id (no row, no error).
UpdateIssuesRow(table, id, updates) ==
    [i \in DOMAIN table |->
        IF i = id THEN Merge(table[i], updateIssuePayload(updates)) ELSE table[i]]

\* The issues of the sprint that are not done, as the store holds them.
unfinished(id) ==
    {i \in DOMAIN rawIssues : rawIssues[i].sprintId = id /\ rawIssues[i].status # "DONE"}

InitIssue ==
    /\ PERMISSION_OVERRIDES = <<>>
    /\ space_permissions = <<>>
    /\ lastCheck = NoCheck
    /\ users = [u \in UserIds |-> IF u = "u1" THEN "Developer" ELSE "Founder"]
    /\ spaces = [s \in {"s1"} |-> [createdBy |-> "u2", deletedAt |-> Undefined,
                                    name |-> "Backend", type |-> "general"]]
    /\ space_members = <<>>
    /\ currentUser = Undefined
    /\ allSpaces = <<>>
    /\ activeSpaceId = Undefined
    /\ currentSpacePermission = NoRow
    /\ lookups = {}
    /\ selectedSpace = Undefined
    /\ permissions = <<>>
    /\ showDeleted = FALSE
    /\ issues = [i \in IssueIds |->
                    IF i = "i1" THEN Issue("TODO", "sp1", "e1", "u2", "s1")
                    ELSE Issue("DONE", "sp1", Undefined, "u2", Undefined)]
    /\ InviteIdle
    /\ CodeIdle
    /\ TeamIdle
    /\ AuditIdle
    /\ rawIssues = <<>>
    /\ sprints = [sp \in SprintIds |-> "ACTIVE"]
    /\ allSprints = <<>>
    /\ OrgIdle
    /\ createCalls = <<>>

\* The store's updateIssue up to its await: the local issue takes the updates.
updateIssue_Call(id, updates) ==
    /\ lastCheck.fn = "none"
    /\ storeCall.fn = "none"
    /\ currentUser # Undefined
    /\ id \in DOMAIN rawIssues
    /\ Len(activities) <= MaxActivities
    /\ rawIssues' = [i \in DOMAIN rawIssues |->
                        IF i = id THEN Merge(rawIssues[i], updates) ELSE rawIssues[i]]
    /\ storeCall' = BeginStoreCall("updateIssue", id, updates)
    /\ UNCHANGED <<PERMISSION_OVERRIDES, space_permissions, lastCheck, storeVars, issues,
                   inviteVars, codeVars, teamVars, isSupabaseConfigured, activities,
                   notifications, sprints, allSprints, orgVars, createCalls>>

\* api.updateIssue({ id, ...updates }) answers; its error is thrown through the
\* store's updateIssue, which has no handler.  After it a change of status in
\* an active space is logged as task_moved.
api_updateIssue(ok) ==
    /\ storeCall.fn = "updateIssue"
    /\ storeCall.pc = "api"
    /\ LET logged == IF "status" \in DOMAIN storeCall.target
                        /\ storeCall.activeSpaceId # Undefined
                     THEN logSpaceActivityInternal(storeCall, storeCall.activeSpaceId,
                                                   "task_moved", "returned")
                     ELSE [storeCall EXCEPT !.pc = "returned"]
       IN  IF ~isSupabaseConfigured
           THEN /\ storeCall' = logged
                /\ UNCHANGED issues
           ELSE IF ok
           THEN /\ issues' = UpdateIssuesRow(issues, storeCall.id, storeCall.target)
                /\ storeCall' = [logged EXCEPT !.persisted = TRUE]
           ELSE /\ storeCall' = [storeCall EXCEPT !.apiFailed = TRUE, !.error = UpdateError,
                                                   !.pc = "returned"]
                /\ UNCHANGED issues
    /\ UNCHANGED <<PERMISSION_OVERRIDES, space_permissions, lastCheck, storeVars,
                   inviteVars, codeVars, teamVars, isSupabaseConfigured, activities,
                   notifications, issueVars, orgVars, createCalls>>

\* The store's completeSprint: the sprint is completed locally and in the
\* table (ok: api.updateSprint does not throw), then updateIssue(i, { sprintId:
\* null }) is called for every unfinished issue and not waited for; sent are
\* the calls whose request succeeds.
completeSprint(id, ok, sent) ==
    /\ lastCheck.fn = "none"
    /\ storeCall.fn = "none"
    /\ currentUser # Undefined
    /\ id \in DOMAIN allSprints
    /\ sent \subseteq unfinished(id)
    /\ allSprints' = [allSprints EXCEPT ![id] = "COMPLETED"]
    /\ IF ok
       THEN /\ sprints' = [sp \in DOMAIN sprints |->
                              IF sp = id THEN "COMPLETED" ELSE sprints[sp]]
            /\ rawIssues' = [i \in DOMAIN rawIssues |->
                                IF i \in unfinished(id)
                                THEN Merge(rawIssues[i], [sprintId |-> Undefined])
                                ELSE rawIssues[i]]
            /\ issues' = [i \in DOMAIN issues |->
                             IF i \in sent
                             THEN Merge(issues[i], updateIssuePayload([sprintId |-> Undefined]))
                             ELSE issues[i]]
            /\ storeCall' = [BeginStoreCall("completeSprint", id, sent) EXCEPT
                                !.pc = "returned", !.persisted = TRUE]
       ELSE /\ sent = {}
            /\ storeCall' = [BeginStoreCall("completeSprint", id, sent) EXCEPT
                                !.pc = "returned", !.apiFailed = TRUE, !.error = UpdateError]
            /\ UNCHANGED <<sprints, rawIssues, issues>>
    /\ UNCHANGED <<PERMISSION_OVERRIDES, space_permissions, lastCheck, storeVars,
                   inviteVars, codeVars, teamVars, isSupabaseConfigured, activities,
                   notifications, orgVars, createCalls>>

\* The realtime channel delivers the UPDATE of an issues row: the local issue
\* is replaced by the row of the table.
postgres_changes(id) ==
    /\ lastCheck.fn = "none"
    /\ currentUser # Undefined
    /\ id \in DOMAIN rawIssues \cap DOMAIN issues
    /\ rawIssues[id] # issues[id]
    /\ rawIssues' = [rawIssues EXCEPT ![id] = issues[id]]
    /\ UNCHANGED <<PERMISSION_OVERRIDES, space_permissions, lastCheck, storeVars, issues,
                   inviteVars, codeVars, teamVars, auditVars, sprints, allSprints,
                   orgVars, createCalls>>

NextIssue ==
    \/ \E u \in UserIds : handleSession(u)
    \/ \E s \in SpaceIds \cup {Undefined} : setActiveSpace(s)
    \/ \E req \in lookups : LookupResponse(req)
    \/ \E i \in IssueIds, up \in UpdateInputs : updateIssue_Call(i, up)
    \/ \E ok \in BOOLEAN : api_updateIssue(ok)
    \/ \E ok \in BOOLEAN : createActivity(ok)
    \/ ReturnStoreCall
    \/ \E sp \in SprintIds, ok \in BOOLEAN, sent \in SUBSET IssueIds : completeSprint(sp, ok, sent)
    \/ \E i \in IssueIds : postgres_changes(i)

SpecIssue == InitIssue /\ [][NextIssue]_vars

-----------------------------------------------------------------------------
(* The active organization of the store: setActiveOrganization and the     *)
(* answers of api.getOrgMemberRole.                                        *)

\* The organizations of the session's user in the model.
Orgs == {"o1", "o2"}

\* api.getOrgMemberRole: the role of the row, null without one.
getOrgMemberRole(orgId, userId) ==
    IF isSupabaseConfigured /\ <<orgId, userId>> \in DOMAIN org_members
    THEN org_members[<<orgId, userId>>]
    ELSE Undefined

\* u2 founded both organizations; u1 is Admin of o1 and Member of o2.
InitOrg ==
    /\ PERMISSION_OVERRIDES = <<>>
    /\ space_permissions = <<>>
    /\ lastCheck = NoCheck
    /\ StoreIdle
    /\ issues = <<>>
    /\ invites = <<>>
    /\ org_members = [k \in Orgs \X UserIds |->
                         IF k[2] = "u2" THEN "Founder"
                         ELSE IF k[1] = "o1" THEN "Admin" ELSE "Member"]
    /\ workspace_members = <<>>
    /\ acceptCalls = <<>>
    /\ now = 0
    /\ CodeIdle
    /\ TeamIdle
    /\ AuditIdle
    /\ IssueIdle
    /\ organizations = [o \in Orgs |-> [ownerId |-> "u2"]]
    /\ userOrgs = {}
    /\ activeOrgId = Undefined
    /\ currentOrgRole = Undefined
    /\ orgLookups = {}
    /\ orgCall = NoOrgCall
    /\ createCalls = <<>>

\* The store's setActiveOrganization up to its first await: the organization
\* is the active one and the user's role in it is asked for.
setActiveOrganization(orgId) ==
    /\ lastCheck.fn = "none"
    /\ currentUser # Undefined
    /\ orgId \in userOrgs
    /\ activeOrgId' = orgId
    /\ orgLookups' = orgLookups \cup {[orgId |-> orgId, userId |-> currentUser]}
    /\ UNCHANGED <<PERMISSION_OVERRIDES, space_permissions, lastCheck, storeVars, issues,
                   inviteVars, codeVars, teamVars, auditVars, issueVars, organizations,
                   userOrgs, currentOrgRole, orgCall, createCalls>>

\* api.getOrgMemberRole answers and setCurrentOrgRole(role) runs, in
\* setActiveOrganization as in handleSession.
OrgLookupResponse(req) ==
    /\ lastCheck.fn = "none"
    /\ req \in orgLookups
    /\ orgLookups' = orgLookups \ {req}
    /\ currentOrgRole' = getOrgMemberRole(req.orgId, req.userId)
    /\ UNCHANGED <<PERMISSION_OVERRIDES, space_permissions, lastCheck, storeVars, issues,
                   inviteVars, codeVars, teamVars, auditVars, issueVars, organizations,
                   userOrgs, activeOrgId, orgCall, createCalls>>

NextOrg ==
    \/ \E u \in UserIds : handleSession(u)
    \/ logout
    \/ \E o \in Orgs : setActiveOrganization(o)
    \/ \E req \in orgLookups : OrgLookupResponse(req)

SpecOrg == InitOrg /\ [][NextOrg]_vars

-----------------------------------------------------------------------------
(* The owner of an organization: api.createOrganizationWithFounder and     *)
(* api.transferOrgOwnership, request by request, next to api.addOrgMember. *)

NotConfigured == "Supabase not configured"

OnlyOwner == "Only the current owner can transfer ownership"

\* An organization call begins; sound says that every organization had its
\* one Founder row, the owner's, when it began; writes counts its updates.
BeginOrgCall(fn, pc, orgId, currentOwnerId, newOwnerId, sound) ==
    [fn |-> fn, pc |-> pc, orgId |-> orgId, currentOwnerId |-> currentOwnerId,
     newOwnerId |-> newOwnerId, error |-> Undefined, sound |-> sound, writes |-> 0]

\* The users with a Founder row in the organization.
Founders(o) ==
    {u \in UserIds : <<o, u>> \in DOMAIN org_members /\ org_members[<<o, u>>] = "Founder"}

\* Every organization has exactly one Founder row, and it is its owner's.
FounderRows == \A o \in DOMAIN organizations : Founders(o) = {organizations[o].ownerId}

\* update org_members set role where orgId and userId match: no row, no error.
UpdateRole(table, key, role) ==
    [k \in DOMAIN table |-> IF k = key THEN role ELSE table[k]]

InitOwner ==
    /\ PERMISSION_OVERRIDES = <<>>
    /\ space_permissions = <<>>
    /\ lastCheck = NoCheck
    /\ StoreIdle
    /\ ExtIdle

\* api.createOrganizationWithFounder(orgData, founderId) is called; the id of
\* the organization is new.
createOrganizationWithFounder(orgId, founderId) ==
    /\ lastCheck.fn = "none"
    /\ orgCall.fn = "none"
    /\ orgId \notin DOMAIN organizations
    /\ orgCall' = IF isSupabaseConfigured
                  THEN BeginOrgCall("createOrganizationWithFounder", "createOrganization",
                                    orgId, founderId, founderId, FounderRows)
                  ELSE [BeginOrgCall("createOrganizationWithFounder", "returned",
                                     orgId, founderId, founderId, FounderRows)
                           EXCEPT !.error = NotConfigured]
    /\ UNCHANGED <<PERMISSION_OVERRIDES, space_permissions, lastCheck, storeVars, issues,
                   inviteVars, codeVars, teamVars, auditVars, issueVars, organizations,
                   userOrgs, activeOrgId, currentOrgRole, orgLookups, createCalls>>

\* api.createOrganization: the row with ownerId = founderId, or the error.
createOrganization(ok) ==
    /\ orgCall.pc = "createOrganization"
    /\ IF ok
       THEN /\ organizations' = [o \in DOMAIN organizations \cup {orgCall.orgId} |->
                                    IF o = orgCall.orgId
                                    THEN [ownerId |-> orgCall.newOwnerId]
                                    ELSE organizations[o]]
            /\ orgCall' = [orgCall EXCEPT !.pc = "addOrgMember", !.writes = @ + 1]
       ELSE /\ orgCall' = [orgCall EXCEPT !.pc = "returned", !.error = UpdateError]
            /\ UNCHANGED organizations
    /\ UNCHANGED <<PERMISSION_OVERRIDES, space_permissions, lastCheck, storeVars, issues,
                   inviteVars, codeVars, teamVars, auditVars, issueVars, userOrgs,
                   activeOrgId, currentOrgRole, orgLookups, createCalls>>

\* api.addOrgMember of the founder; then the default workspace, whose failure
\* is caught, and the organization is returned.
createOrganizationWithFounder_AddOrgMember(ok) ==
    /\ orgCall.pc = "addOrgMember"
    /\ LET key == <<orgCall.orgId, orgCall.newOwnerId>>
       IN  IF ok /\ CanInsert(org_members, key)
           THEN /\ org_members' = Insert(org_members, key, "Founder")
                /\ orgCall' = [orgCall EXCEPT !.pc = "returned", !.writes = @ + 1]
           ELSE /\ orgCall' = [orgCall EXCEPT !.pc = "returned",
                                  !.error = IF ok THEN DuplicateKey ELSE UpdateError]
                /\ UNCHANGED org_members
    /\ UNCHANGED <<PERMISSION_OVERRIDES, space_permissions, lastCheck, storeVars, issues,
                   invites, workspace_members, acceptCalls, now, codeVars, teamVars,
                   auditVars, issueVars, organizations, userOrgs, activeOrgId,
                   currentOrgRole, orgLookups, createCalls>>

\* api.transferOrgOwnership(orgId, currentOwnerId, newOwnerId) is called; with
\* no configured client it returns at once.
transferOrgOwnership(orgId, currentOwnerId, newOwnerId) ==
    /\ lastCheck.fn = "none"
    /\ orgCall.fn = "none"
    /\ orgCall' = BeginOrgCall("transferOrgOwnership",
                               IF isSupabaseConfigured THEN "getOrganizationById"
                               ELSE "returned",
                               orgId, currentOwnerId, newOwnerId, FounderRows)
    /\ UNCHANGED <<PERMISSION_OVERRIDES, space_permissions, lastCheck, storeVars, issues,
                   inviteVars, codeVars, teamVars, auditVars, issueVars, organizations,
                   userOrgs, activeOrgId, currentOrgRole, orgLookups, createCalls>>

\* The owner is verified against the row of the organization.
transferOrgOwnership_Verify ==
    /\ orgCall.pc = "getOrganizationById"
    /\ orgCall' = IF orgCall.orgId \notin DOMAIN organizations
                     \/ organizations[orgCall.orgId].ownerId # orgCall.currentOwnerId
                  THEN [orgCall EXCEPT !.pc = "returned", !.error = OnlyOwner]
                  ELSE [orgCall EXCEPT !.pc = "updateOrganization"]
    /\ UNCHANGED <<PERMISSION_OVERRIDES, space_permissions, lastCheck, storeVars, issues,
                   inviteVars, codeVars, teamVars, auditVars, issueVars, organizations,
                   userOrgs, activeOrgId, currentOrgRole, orgLookups, createCalls>>

\* api.updateOrganization({ id, ownerId: newOwnerId }).
transferOrgOwnership_UpdateOrganization(ok) ==
    /\ orgCall.pc = "updateOrganization"
    /\ IF ok
       THEN /\ organizations' = [o \in DOMAIN organizations |->
                                    IF o = orgCall.orgId
                                    THEN [organizations[o] EXCEPT !.ownerId = orgCall.newOwnerId]
                                    ELSE organizations[o]]
            /\ orgCall' = [orgCall EXCEPT !.pc = "promote", !.writes = @ + 1]
       ELSE /\ orgCall' = [orgCall EXCEPT !.pc = "returned", !.error = UpdateError]
            /\ UNCHANGED organizations
    /\ UNCHANGED <<PERMISSION_OVERRIDES, space_permissions, lastCheck, storeVars, issues,
                   inviteVars, codeVars, teamVars, auditVars, issueVars, userOrgs,
                   activeOrgId, currentOrgRole, orgLookups, createCalls>>

\* api.updateOrgMemberRole(orgId, userId, role) of the call: first the new
\* owner becomes Founder, then the former owner becomes Admin.
updateOrgMemberRole(ok) ==
    /\ orgCall.pc \in {"promote", "demote"}
    /\ LET userId == IF orgCall.pc = "promote" THEN orgCall.newOwnerId
                     ELSE orgCall.currentOwnerId
           role == IF orgCall.pc = "promote" THEN "Founder" ELSE "Admin"
       IN  IF ok
           THEN /\ org_members' = UpdateRole(org_members, <<orgCall.orgId, userId>>, role)
                /\ orgCall' = [orgCall EXCEPT
                                  !.pc = IF orgCall.pc = "promote" THEN "demote" ELSE "returned",
                                  !.writes = @ + 1]
           ELSE /\ orgCall' = [orgCall EXCEPT !.pc = "returned", !.error = UpdateError]
                /\ UNCHANGED org_members
    /\ UNCHANGED <<PERMISSION_OVERRIDES, space_permissions, lastCheck, storeVars, issues,
                   invites, workspace_members, acceptCalls, now, codeVars, teamVars,
                   auditVars, issueVars, organizations, userOrgs, activeOrgId,
                   currentOrgRole, orgLookups, createCalls>>

\* The call has returned or thrown; the next one can begin.
ReturnOrgCall ==
    /\ orgCall.pc = "returned"
    /\ orgCall' = NoOrgCall
    /\ UNCHANGED <<PERMISSION_OVERRIDES, space_permissions, lastCheck, storeVars, issues,
                   inviteVars, codeVars, teamVars, auditVars, issueVars, organizations,
                   userOrgs, activeOrgId, currentOrgRole, orgLookups, createCalls>>

NextOwner ==
    \/ \E o \in OrgIds, u \in UserIds : createOrganizationWithFounder(o, u)
    \/ \E ok \in BOOLEAN : createOrganization(ok)
    \/ \E ok \in BOOLEAN : createOrganizationWithFounder_AddOrgMember(ok)
    \/ \E o \in OrgIds, u, v \in UserIds : transferOrgOwnership(o, u, v)
    \/ transferOrgOwnership_Verify
    \/ \E ok \in BOOLEAN : transferOrgOwnership_UpdateOrganization(ok)
    \/ \E ok \in BOOLEAN : updateOrgMemberRole(ok)
    \/ ReturnOrgCall
    \/ \E o \in OrgIds, u \in UserIds, r \in {"Member", "Admin"} :
          addOrgMember([orgId |-> o, userId |-> u, role |-> r])
    \/ ReturnCheck

SpecOwner == InitOwner /\ [][NextOwner]_vars

-----------------------------------------------------------------------------
(* api.createInvite, request by request: the search for a pending invite   *)
(* and the insert are two requests, and two calls interleave between them. *)

InviteExists == "An invite already exists for this email"

\* The invite's id and token that the caller of each call has generated.
NewInviteId == [c \in CallIds |-> IF c = "c1" THEN "inv1" ELSE "inv2"]

NewToken == [c \in CallIds |-> IF c = "c1" THEN "t1" ELSE "t3"]

NoCreateCall == [pc |-> "idle", invite |-> Undefined, error |-> Undefined]

\* The pending invites for the same email, target and type.
pendingFor(invite) ==
    {i \in DOMAIN invites :
        /\ invites[i].email = invite.email
        /\ invites[i].targetId = invite.targetId
        /\ invites[i].type = invite.type
        /\ invites[i].status = "pending"}

InitCreateInvite ==
    /\ PERMISSION_OVERRIDES = <<>>
    /\ space_permissions = <<>>
    /\ lastCheck = NoCheck
    /\ StoreIdle
    /\ issues = <<>>
    /\ InviteIdle
    /\ CodeIdle
    /\ TeamIdle
    /\ AuditIdle
    /\ IssueIdle
    /\ OrgIdle
    /\ createCalls = [c \in CallIds |-> NoCreateCall]

\* api.createInvite(invite) is called with the invite that createInviteAction
\* has built: status pending, seven days to live.
createInvite(c, email, ty) ==
    /\ createCalls[c].pc = "idle"
    /\ LET invite == [id |-> NewInviteId[c], email |-> email, type |-> ty,
                      targetId |-> TargetOf[ty], role |-> RoleOf[ty], status |-> "pending",
                      token |-> NewToken[c], expiresAt |-> now + InviteTTL,
                      acceptedAt |-> NoTime]
       IN  createCalls' = [createCalls EXCEPT ![c] =
              IF isSupabaseConfigured
              THEN [pc |-> "select", invite |-> invite, error |-> Undefined]
              ELSE [pc |-> "failed", invite |-> invite, error |-> NotConfigured]]
    /\ UNCHANGED <<PERMISSION_OVERRIDES, space_permissions, lastCheck, storeVars, issues,
                   inviteVars, codeVars, teamVars, auditVars, issueVars, orgVars>>

\* select ... status = 'pending' .single(): the row when exactly one matches.
createInvite_Select(c) ==
    /\ createCalls[c].pc = "select"
    /\ createCalls' = [createCalls EXCEPT ![c] =
          IF Cardinality(pendingFor(createCalls[c].invite)) = 1
          THEN [@ EXCEPT !.pc = "failed", !.error = InviteExists]
          ELSE [@ EXCEPT !.pc = "insert"]]
    /\ UNCHANGED <<PERMISSION_OVERRIDES, space_permissions, lastCheck, storeVars, issues,
                   inviteVars, codeVars, teamVars, auditVars, issueVars, orgVars>>

\* insert into invites: the primary key is the id.
createInvite_Insert(c, ok) ==
    /\ createCalls[c].pc = "insert"
    /\ LET invite == createCalls[c].invite
           row == [email |-> invite.email, type |-> invite.type,
                   targetId |-> invite.targetId, role |-> invite.role,
                   status |-> invite.status, token |-> invite.token,
                   expiresAt |-> invite.expiresAt, acceptedAt |-> invite.acceptedAt]
       IN  IF ok /\ CanInsert(invites, invite.id)
           THEN /\ invites' = Insert(invites, invite.id, row)
                /\ createCalls' = [createCalls EXCEPT ![c].pc = "done"]
           ELSE /\ createCalls' = [createCalls EXCEPT ![c].pc = "failed",
                                                      ![c].error = UpdateError]
                /\ UNCHANGED invites
    /\ UNCHANGED <<PERMISSION_OVERRIDES, space_permissions, lastCheck, storeVars, issues,
                   org_members, workspace_members, acceptCalls, now, codeVars, teamVars,
                   auditVars, issueVars, orgVars>>

\* rejectInvite and resendInvite, which leave the calls as they are.
NextCreateInvite ==
    \/ \E c \in CallIds, u \in UserIds : createInvite(c, Email[u], "organization")
    \/ \E c \in CallIds : createInvite_Select(c)
    \/ \E c \in CallIds, ok \in BOOLEAN : createInvite_Insert(c, ok)
    \/ \E i \in DOMAIN invites : rejectInvite(i)
    \/ \E i \in DOMAIN invites : resendInvite(i)

SpecCreateInvite == InitCreateInvite /\ [][NextCreateInvite]_vars

-----------------------------------------------------------------------------
(* The api service without a configured client (isSupabaseConfigured is    *)
(* false): its operations called directly, as the store calls them.        *)

\* The outcome of a call: the error thrown, if any, and the value returned.
Outcome(error, value) == [error |-> error, value |-> value]

\* The tables have their rows; the client has no configuration.
InitClient ==
    /\ PERMISSION_OVERRIDES = <<>>
    /\ space_permissions = <<>>
    /\ lastCheck = NoCheck
    /\ users = [u \in UserIds |-> IF u = "u1" THEN "CTO" ELSE "Founder"]
    /\ spaces = [s \in {"s1"} |-> [createdBy |-> "u2", deletedAt |-> Undefined,
                                    name |-> "Backend", type |-> "general"]]
    /\ space_members = <<>>
    /\ currentUser = Undefined
    /\ allSpaces = <<>>
    /\ activeSpaceId = Undefined
    /\ currentSpacePermission = NoRow
    /\ lookups = {}
    /\ selectedSpace = Undefined
    /\ permissions = <<>>
    /\ showDeleted = FALSE
    /\ issues = [i \in {"i1"} |-> Issue("TODO", "sp1", Undefined, Undefined, "s1")]
    /\ invites = [i \in InviteIds |->
                     [email |-> "a@x", type |-> "organization",
                      targetId |-> TargetOf["organization"],
                      role |-> RoleOf["organization"], status |-> "pending",
                      token |-> "t1", expiresAt |-> InviteTTL, acceptedAt |-> NoTime]]
    /\ org_members = [k \in {<<"o1", "u2">>} |-> "Founder"]
    /\ workspace_members = <<>>
    /\ acceptCalls = [c \in CallIds |-> NoCall]
    /\ now = 0
    /\ CodeIdle
    /\ TeamIdle
    /\ isSupabaseConfigured = FALSE
    /\ activities = <<>>
    /\ notifications = <<>>
    /\ storeCall = NoStoreCall
    /\ rawIssues = <<>>
    /\ sprints = [sp \in SprintIds |-> "ACTIVE"]
    /\ allSprints = <<>>
    /\ organizations = [o \in OrgIds |-> [ownerId |-> "u2"]]
    /\ userOrgs = {}
    /\ activeOrgId = Undefined
    /\ currentOrgRole = Undefined
    /\ orgLookups = {}
    /\ orgCall = NoOrgCall
    /\ createCalls = <<>>

\* api.softDeleteSpace: the update of deletedAt, or its error; without a
\* configured client the call returns and nothing is thrown.
api_softDeleteSpace(id, ok) ==
    /\ lastCheck.fn = "none"
    /\ id \in DOMAIN spaces
    /\ IF isSupabaseConfigured /\ ok
       THEN spaces' = [spaces EXCEPT ![id].deletedAt = "now"]
       ELSE UNCHANGED spaces
    /\ lastCheck' = [fn |-> "softDeleteSpace",
                     result |-> Outcome(IF isSupabaseConfigured /\ ~ok THEN UpdateError
                                        ELSE Undefined, Undefined)]
    /\ UNCHANGED <<PERMISSION_OVERRIDES, space_permissions, users, space_members,
                   currentUser, allSpaces, activeSpaceId, currentSpacePermission, lookups,
                   selectedSpace, permissions, showDeleted, extVars>>

\* api.restoreSpace: deletedAt back to null, in the same way.
api_restoreSpace(id, ok) ==
    /\ lastCheck.fn = "none"
    /\ id \in DOMAIN spaces
    /\ IF isSupabaseConfigured /\ ok
       THEN spaces' = [spaces EXCEPT ![id].deletedAt = Undefined]
       ELSE UNCHANGED spaces
    /\ lastCheck' = [fn |-> "restoreSpace",
                     result |-> Outcome(IF isSupabaseConfigured /\ ~ok THEN UpdateError
                                        ELSE Undefined, Undefined)]
    /\ UNCHANGED <<PERMISSION_OVERRIDES, space_permissions, users, space_members,
                   currentUser, allSpaces, activeSpaceId, currentSpacePermission, lookups,
                   selectedSpace, permissions, showDeleted, extVars>>

\* api.updateSpacePermissions: the upsert of the row, or its error.
updateSpacePermissions(row, ok) ==
    /\ lastCheck.fn = "none"
    /\ IF isSupabaseConfigured /\ ok
       THEN space_permissions' =
               Insert(space_permissions, <<row.spaceId, row.userId>>, row.flags)
       ELSE UNCHANGED space_permissions
    /\ lastCheck' = [fn |-> "updateSpacePermissions",
                     result |-> Outcome(IF isSupabaseConfigured /\ ~ok THEN UpdateError
                                        ELSE Undefined, Undefined)]
    /\ UNCHANGED <<PERMISSION_OVERRIDES, storeVars, extVars>>

\* api.createSprint: the inserted row, or the error of the insert; without a
\* configured client the sprint is returned as it was passed.
createSprint(id, ok) ==
    /\ lastCheck.fn = "none"
    /\ id \notin DOMAIN sprints
    /\ IF isSupabaseConfigured /\ ok
       THEN sprints' = [sp \in DOMAIN sprints \cup {id} |->
                           IF sp = id THEN "PLANNED" ELSE sprints[sp]]
       ELSE UNCHANGED sprints
    /\ lastCheck' = [fn |-> "createSprint",
                     result |-> IF isSupabaseConfigured /\ ~ok
                                THEN Outcome(UpdateError, Undefined)
                                ELSE Outcome(Undefined, [id |-> id, status |-> "PLANNED"])]
    /\ UNCHANGED <<PERMISSION_OVERRIDES, space_permissions, storeVars, issues, inviteVars,
                   codeVars, teamVars, auditVars, rawIssues, allSprints, orgVars,
                   createCalls>>

\* The read operations: the rows they return.
CallReads ==
    /\ lastCheck.fn = "none"
    /\ lastCheck' = [fn |-> "reads",
                     result |-> [getSpaces |-> DOMAIN getSpaces,
                                 getIssues |-> DOMAIN getIssues,
                                 getSprints |-> DOMAIN getSprints,
                                 getOrganizations |->
                                    UNION {getOrganizations(u) : u \in UserIds},
                                 getOrgMemberRole |->
                                    {getOrgMemberRole(o, u) : o \in OrgIds, u \in UserIds}
                                       \ {Undefined}]]
    /\ UNCHANGED <<PERMISSION_OVERRIDES, space_permissions, storeVars, extVars>>

NextClient ==
    \/ \E s \in SpaceIds, ok \in BOOLEAN : api_softDeleteSpace(s, ok)
    \/ \E s \in SpaceIds, ok \in BOOLEAN : api_restoreSpace(s, ok)
    \/ \E o \in OrgIds, u \in UserIds, r \in {"Member", "Admin"} :
          addOrgMember([orgId |-> o, userId |-> u, role |-> r])
    \/ \E s \in SpaceIds, u \in UserIds :
          api_addSpaceMember([spaceId |-> s, userId |-> u])
    \/ \E s \in SpaceIds, u \in UserIds, ok \in BOOLEAN :
          updateSpacePermissions(SpacePermission(s, u, DEFAULT_SPACE_PERMISSIONS["Developer"]), ok)
    \/ \E c \in CallIds, token \in Tokens, u \in UserIds : acceptInvite(c, token, u)
    \/ \E ok \in BOOLEAN : createSprint("sp2", ok)
    \/ CallReads
    \/ ReturnCheck

SpecClient == InitClient /\ [][NextClient]_vars

-----------------------------------------------------------------------------
(* Claims about the evaluators (checked under SpecEval)                    *)

\* The SpacePermission flag that answers for a capability (spec 4.2, rule 3).
MatchingFlag ==
    [p \in {"CREATE_TASK", "EDIT_TASK", "DELETE_TASK", "MANAGE_SPRINT", "EDIT_SPACE",
            "DELETE_SPACE", "MANAGE_MEMBERS"} |->
        CASE p = "CREATE_TASK" -> "canCreateTasks"
          [] p = "EDIT_TASK" -> "canEditTasks"
          [] p = "DELETE_TASK" -> "canDeleteTasks"
          [] p = "MANAGE_SPRINT" -> "canManageSprints"
          [] p = "EDIT_SPACE" -> "canEditSpace"
          [] p = "DELETE_SPACE" -> "canDeleteSpace"
          [] p = "MANAGE_MEMBERS" -> "canManageMembers"]

\* Some tier role present in the context has the permission in its catalog.
SomeTierGrants(permission, context) ==
    \/ context.spaceRole \in SpaceRole
         /\ permission \in SPACE_ROLE_PERMISSIONS[context.spaceRole]
    \/ context.workspaceRole \in WorkspaceRole
         /\ permission \in WORKSPACE_ROLE_PERMISSIONS[context.workspaceRole]
    \/ context.orgRole \in OrgRole
         /\ permission \in ORG_ROLE_PERMISSIONS[context.orgRole]

\* C1 (override supremacy): whenever the override store holds a boolean V for
\* (U, C), checkPermissionWithContext(C, ctx) with ctx.userId = U returns V,
\* whatever the org, workspace and space roles of ctx are (Founder included).
C1_OverrideSupremacy ==
    lastCheck.fn = "checkPermissionWithContext" =>
        \A p \in Permission, c \in PermissionContext :
            hasOverride(c.userId, p) =>
                Verdict(p, c) = PERMISSION_OVERRIDES[c.userId][p]

\* C1 witness: a Founder context was evaluated while a denying override existed
\* for its user, and the verdict was deny.
C1_Witness ==
    /\ lastCheck.fn = "checkPermissionWithContext"
    /\ \E p \in Permission, c \in PermissionContext :
          /\ c.orgRole = "Founder"
          /\ hasOverride(c.userId, p)
          /\ PERMISSION_OVERRIDES[c.userId][p] = FALSE
          /\ Verdict(p, c) = FALSE

\* C2 (Founder supremacy): with orgRole = Founder and no override for the user on
\* C, checkPermissionWithContext(C, ctx) returns true for every capability and
\* every workspace and space role.
C2_FounderSupremacy ==
    lastCheck.fn = "checkPermissionWithContext" =>
        \A p \in Permission, c \in PermissionContext :
            (c.orgRole = "Founder" /\ ~hasOverride(c.userId, p)) =>
                Verdict(p, c) = TRUE

\* C2 witness: a Founder who is only a viewer of the workspace and of the space,
\* and who has an override on another capability, was allowed a capability that
\* no viewer catalog holds.
C2_Witness ==
    /\ lastCheck.fn = "checkPermissionWithContext"
    /\ \E u \in UserIds :
          /\ hasOverride(u, "DELETE_SPACE")
          /\ ~hasOverride(u, "DELETE_ORGANIZATION")
          /\ Verdict("DELETE_ORGANIZATION",
                          Ctx("Founder", "Workspace Viewer", "Space Viewer", u)) = TRUE

\* C3 (specificity ordering): for orgRole = Admin and spaceRole = Space Viewer, a
\* capability of Admin's catalog that is not in Space Viewer's, no override and no
\* workspace grant, the evaluation denies when a SpacePermission row of that
\* user has the matching flag false.
C3_SpaceDenialNotOverridden ==
    lastCheck.fn = "checkPermissionWithContext" =>
        \A p \in DOMAIN MatchingFlag, c \in PermissionContext, s \in SpaceIds :
            ( /\ c.orgRole = "Admin"
              /\ c.spaceRole = "Space Viewer"
              /\ c.workspaceRole = Undefined
              /\ c.userId # Undefined
              /\ ~hasOverride(c.userId, p)
              /\ p \in ORG_ROLE_PERMISSIONS["Admin"] \ SPACE_ROLE_PERMISSIONS["Space Viewer"]
              /\ <<s, c.userId>> \in DOMAIN space_permissions
              /\ MatchingFlag[p] \notin space_permissions[<<s, c.userId>>] )
            => Verdict(p, c) = FALSE

\* C4 (legacy path): for the legacy role Founder, hasPermission returns the
\* override when one exists for the capability (false for a denying override)
\* and true when none exists.
C4_LegacyOverrideBeforeFounder ==
    lastCheck.fn = "hasPermission" =>
        \A p \in Permission, u \in UserIds :
            LegacyVerdict("Founder", p, u) =
                (IF hasOverride(u, p) THEN PERMISSION_OVERRIDES[u][p] ELSE TRUE)

\* C5 (tier chain): with no override for the user and orgRole not Founder,
\* checkPermissionWithContext(C, ctx) is true exactly when some tier role present
\* in ctx has C in its catalog; an absent tier is skipped and the context without
\* any role yields false.
C5_TierChain ==
    lastCheck.fn = "checkPermissionWithContext" =>
        \A p \in Permission, c \in PermissionContext :
            (c.orgRole # "Founder" /\ ~hasOverride(c.userId, p)) =>
                Verdict(p, c) = SomeTierGrants(p, c)

\* C5 witness: the workspace tier alone granted a capability that the present
\* space and org roles do not hold, an absent space tier did not deny, and the
\* context without any role was denied.
C5_Witness ==
    /\ lastCheck.fn = "checkPermissionWithContext"
    /\ Verdict("DELETE_PROJECT",
                          Ctx("Viewer", "Workspace Admin", "Space Viewer", "u1")) = TRUE
    /\ Verdict("DELETE_PROJECT",
                          Ctx(Undefined, "Workspace Admin", Undefined, Undefined)) = TRUE
    /\ Verdict("DELETE_PROJECT",
                          Ctx(Undefined, Undefined, Undefined, "u1")) = FALSE

\* C6 (deny by default): for a role string of no role enumeration and no
\* override, the legacy hasPermission is false for every capability.
C6_UnknownRoleDenied ==
    lastCheck.fn \in {"hasPermission", "hasPermission_rbac"} =>
        \A p \in Permission, u \in UserIds \cup {Undefined} :
            ~hasOverride(u, p) => LegacyVerdict(UnknownRole, p, u) = FALSE

\* C8 (explicit space grant): for a Space Contributor whose tiers do not grant
\* DELETE_SPACE and who has no override, checkPermissionWithContext allows
\* DELETE_SPACE exactly when the SpacePermission row of that user and space
\* has canDeleteSpace = true, and denies while there is no row.
C8_ContributorDeleteFollowsRow ==
    lastCheck.fn = "checkPermissionWithContext" =>
        \A o \in OrgRole \cup {Undefined}, w \in WorkspaceRole \cup {Undefined} :
            (/\ ~hasOverride("u1", "DELETE_SPACE")
             /\ o # "Founder"
             /\ ~SomeTierGrants("DELETE_SPACE", Ctx(o, w, "Space Contributor", "u1")))
            => Verdict("DELETE_SPACE", Ctx(o, w, "Space Contributor", "u1"))
                 = (/\ <<"s1", "u1">> \in DOMAIN space_permissions
                    /\ "canDeleteSpace" \in space_permissions[<<"s1", "u1">>])

-----------------------------------------------------------------------------
(* Claims about the store (checked under SpecStore)                        *)

\* The loaded row is the row of the table for the active space and the user.
RowLoaded ==
    currentSpacePermission =
        (IF activeSpaceId # Undefined /\ currentUser # Undefined
         THEN RowFor(activeSpaceId, currentUser) ELSE NoRow)

C9_DeletedAtOnlyWhenAllowed ==
    [][\A s \in DOMAIN spaces :
          spaces'[s].deletedAt # spaces[s].deletedAt => checkPermission("DELETE_SPACE")]_vars

\* C10 (row mutation authority): a step creates, changes or deletes a
\* SpacePermission row only when the calling user is a Founder or the owner of
\* the space of the row.
C10_RowsMutatedByOwnerOrFounder ==
    [][\A k \in DOMAIN space_permissions \cup DOMAIN space_permissions' :
          (\/ (k \in DOMAIN space_permissions) # (k \in DOMAIN space_permissions')
           \/ space_permissions[k] # space_permissions'[k])
          => /\ currentUser # Undefined
             /\ \/ users[currentUser] = "Founder"
                \/ spaces[k[1]].createdBy = currentUser]_vars

-----------------------------------------------------------------------------
(* Claims about the trash (checked under SpecTrash)                        *)

\* The fields of a space row other than the deletion timestamp.
NonTimestamp(row) == [row EXCEPT !.deletedAt = Undefined]

\* C11 (soft-delete reversibility): a step that changes the deletedAt of a
\* space leaves every other field of its row and of its local entry, every
\* issue and every member and permission row as they were, in the table and in
\* the local list alike, and a deleted space's step leads back to deletedAt
\* null; so soft delete followed by restore gives back the space as it was.
C11_TrashRoundTrip ==
    [][\A s \in DOMAIN spaces :
          spaces'[s].deletedAt # spaces[s].deletedAt =>
             /\ NonTimestamp(spaces'[s]) = NonTimestamp(spaces[s])
             /\ spaces[s].deletedAt # Undefined => spaces'[s].deletedAt = Undefined
             /\ s \in DOMAIN allSpaces =>
                   /\ s \in DOMAIN allSpaces'
                   /\ NonTimestamp(allSpaces'[s]) = NonTimestamp(allSpaces[s])
                   /\ allSpaces'[s].deletedAt = spaces'[s].deletedAt
             /\ issues' = issues
             /\ space_members' = space_members
             /\ space_permissions' = space_permissions]_vars

\* C11 witness: a renamed space with a second issue was soft-deleted and
\* restored from the trash section (which is still shown, now empty): the row
\* and the local entry are active again with the name and both issues.
C11_Witness ==
    /\ showDeleted
    /\ deletedSpaces = {}
    /\ "s1" \in DOMAIN allSpaces
    /\ spaces["s1"].deletedAt = Undefined
    /\ allSpaces["s1"] = spaces["s1"]
    /\ spaces["s1"].name = "Platform"
    /\ DOMAIN issues = IssueIds
    /\ \A i \in IssueIds : issues[i].spaceId = "s1"

\* C26 (the row follows the active space): with no getSpacePermissions request
\* in flight, the row the store holds is a row of the active space and of the
\* signed-in user, and there is none when no space is active; so
\* checkSpacePermission never answers from the row of a space left before.
C26_RowOfActiveSpace ==
    (lookups = {} /\ currentUser # Undefined) =>
        /\ activeSpaceId = Undefined => currentSpacePermission = NoRow
        /\ currentSpacePermission.present =>
              /\ currentSpacePermission.spaceId = activeSpaceId
              /\ currentSpacePermission.userId = currentUser

\* C24 (the life of a space): a step changes a space from active to trashed or
\* from trashed to active, or removes a trashed space; a row of spaces is
\* removed only when its deletedAt is not null, so no active space is removed.
C24_OnlyTrashedSpacesRemoved ==
    [][\A s \in DOMAIN spaces :
          /\ s \notin DOMAIN spaces' => spaces[s].deletedAt # Undefined
          /\ s \in DOMAIN allSpaces /\ s \notin DOMAIN allSpaces' /\ currentUser' # Undefined =>
                allSpaces[s].deletedAt # Undefined]_vars

-----------------------------------------------------------------------------
(* Claims about the audit trail (checked under SpecAudit)                  *)

\* The toasts of the operation in progress.
Toasts == {storeCall.toasts[n] : n \in 1..Len(storeCall.toasts)}

\* The write of the operation in progress is in its table and in the local list.
WriteKept ==
    LET id == storeCall.id
    IN  CASE storeCall.fn = "softDeleteSpace" ->
                /\ spaces[id].deletedAt # Undefined
                /\ id \in DOMAIN allSpaces => allSpaces[id].deletedAt # Undefined
          [] storeCall.fn = "restoreSpace" ->
                /\ spaces[id].deletedAt = Undefined
                /\ id \in DOMAIN allSpaces => allSpaces[id].deletedAt = Undefined
          [] storeCall.fn = "handleSaveGeneral" ->
                /\ spaces[id].name = storeCall.target.name
                /\ id \in DOMAIN allSpaces => allSpaces[id].name = storeCall.target.name
          [] storeCall.fn = "handleAddMember" ->
                /\ <<id, storeCall.target>> \in DOMAIN space_members
                /\ <<id, storeCall.target>> \in DOMAIN space_permissions
          [] OTHER -> TRUE

\* C21 (best-effort audit): an operation whose persistence writes succeeded
\* and one of whose activity or notification inserts failed (in the
\* application or in a trigger) returns with its write in the table and in
\* the local list and without an error shown or thrown.
C21_AuditFailureSwallowed ==
    (storeCall.pc = "returned" /\ storeCall.auditFailed /\ ~storeCall.apiFailed) =>
        /\ storeCall.persisted
        /\ "error" \notin Toasts
        /\ storeCall.error = Undefined
        /\ WriteKept

\* C21 witness: handleAddMember has returned with the member and the
\* member's row in the tables and both toasts green, while every insert into
\* notifications and activities failed.
C21_Witness ==
    /\ storeCall.pc = "returned"
    /\ storeCall.fn = "handleAddMember"
    /\ storeCall.auditFailed
    /\ storeCall.activeSpaceId # Undefined
    /\ notifications = <<>>
    /\ activities = <<>>
    /\ <<storeCall.id, storeCall.target>> \in DOMAIN space_members
    /\ <<storeCall.id, storeCall.target>> \in DOMAIN space_permissions
    /\ storeCall.toasts = <<"success", "success">>

\* C22 (one activity per mutation): no step changes or removes a row of
\* activities, and when softDeleteSpace, restoreSpace or the saving of the
\* general tab returns, the table has one more row than at the call when the
\* update of the space succeeded and as many rows as at the call when it
\* did not.
C22_OneActivityPerMutation ==
    [][/\ Len(activities') >= Len(activities)
       /\ SubSeq(activities', 1, Len(activities)) = activities
       /\ (/\ storeCall.pc # "returned"
           /\ storeCall'.pc = "returned"
           /\ storeCall'.fn \in {"softDeleteSpace", "restoreSpace", "handleSaveGeneral"}
           /\ ~storeCall'.auditFailed)
          => Len(activities') - storeCall'.startLen =
                (IF storeCall'.persisted THEN 1 ELSE 0)]_vars

\* C29 (active space after soft delete): when softDeleteSpace(id) has updated
\* the row and run its code after the await, the active space is not id.
C29_TrashedSpaceNotActive ==
    (/\ storeCall.fn = "softDeleteSpace"
     /\ storeCall.pc \in {"createActivity", "returned"}
     /\ storeCall.persisted)
    => activeSpaceId # storeCall.id

-----------------------------------------------------------------------------
(* Claims about issues (checked under SpecIssue)                           *)

\* The fields of row b that differ from row a.
Changed(a, b) == {f \in IssueFields : a[f] # b[f]}

\* C27 (updateIssue touches only the named fields): the step of updateIssue
\* that changes the local list, and the step of api.updateIssue that writes the
\* row, change no other issue and no field of the issue that is not named in
\* updates; and completeSprint changes nothing but the sprintId of the
\* unfinished issues of the sprint, locally and in the table.
C27_OnlyNamedFields ==
    [][/\ (storeCall.fn = "none" /\ storeCall'.fn = "updateIssue") =>
             \A i \in DOMAIN rawIssues :
                Changed(rawIssues[i], rawIssues'[i]) \subseteq
                   (IF i = storeCall'.id THEN DOMAIN storeCall'.target ELSE {})
       /\ (storeCall.fn = "updateIssue" /\ storeCall.pc = "api") =>
             \A i \in DOMAIN issues :
                Changed(issues[i], issues'[i]) \subseteq
                   (IF i = storeCall.id THEN DOMAIN storeCall.target ELSE {})
       /\ (storeCall.fn = "none" /\ storeCall'.fn = "completeSprint") =>
             /\ \A i \in DOMAIN rawIssues :
                   Changed(rawIssues[i], rawIssues'[i]) \subseteq
                      (IF i \in unfinished(storeCall'.id) THEN {"sprintId"} ELSE {})
             /\ \A i \in DOMAIN issues :
                   Changed(issues[i], issues'[i]) \subseteq
                      (IF i \in unfinished(storeCall'.id) THEN {"sprintId"} ELSE {})]_vars

-----------------------------------------------------------------------------
(* Claims about organizations (checked under SpecOrg and SpecOwner)        *)

\* C25 (the role follows the active organization): with no getOrgMemberRole
\* request in flight, currentOrgRole is the signed-in user's role in the
\* active organization, null without a membership; the answer for an
\* organization selected before never stays in place of it.
C25_RoleOfActiveOrg ==
    (orgLookups = {} /\ currentUser # Undefined /\ activeOrgId # Undefined) =>
        currentOrgRole = getOrgMemberRole(activeOrgId, currentUser)

\* C28 (one Founder row, the owner's): when createOrganizationWithFounder or
\* transferOrgOwnership completes without an error, having begun with every
\* organization's one Founder row being its owner's, every organization again
\* has exactly one Founder row and it is its owner's; and a transfer whose
\* currentOwnerId is not the owner fails at the verification and writes nothing.
C28_OneFounderRow ==
    [][/\ (orgCall'.pc = "returned" /\ orgCall'.error = Undefined /\ orgCall'.sound) =>
             FounderRows'
       /\ (orgCall.pc = "getOrganizationById" /\ orgCall' # orgCall
             /\ (orgCall.orgId \notin DOMAIN organizations
                   \/ organizations[orgCall.orgId].ownerId # orgCall.currentOwnerId)) =>
             /\ orgCall'.error = OnlyOwner
             /\ orgCall'.writes = 0
             /\ UNCHANGED <<organizations, org_members>>]_vars

-----------------------------------------------------------------------------
(* Claims about the unconfigured client (checked under SpecClient)         *)

MutatingOperations ==
    {"softDeleteSpace", "restoreSpace", "addOrgMember", "addSpaceMember",
     "updateSpacePermissions", "createSprint"}

\* C23 (fail closed): without a configured client a mutating operation
\* (softDeleteSpace, restoreSpace, addOrgMember, addSpaceMember,
\* updateSpacePermissions, createSprint, acceptInvite) ends with an error and
\* returns no row, and the read operations return no rows.
C23_FailClosed ==
    ~isSupabaseConfigured =>
        /\ lastCheck.fn \in MutatingOperations =>
              lastCheck.result.error # Undefined
        /\ \A c \in CallIds : acceptCalls[c].pc # "done"
        /\ lastCheck.fn = "reads" =>
              \A f \in DOMAIN lastCheck.result : lastCheck.result[f] = {}

-----------------------------------------------------------------------------
(* Claims about invites (checked under SpecInvite)                         *)

\* C12 (status only out of pending): no step changes the status of an invite
\* that is accepted, rejected or expired.
C12_StatusOnlyOutOfPending ==
    [][\A i \in DOMAIN invites :
          invites[i].status # "pending" => invites'[i].status = invites[i].status]_vars

\* C13 (invite single-use): two acceptInvite calls with the same token never
\* both succeed.
C13_InviteSingleUse ==
    \A c, d \in CallIds :
        (c # d /\ acceptCalls[c].pc = "done" /\ acceptCalls[d].pc = "done")
        => acceptCalls[c].token # acceptCalls[d].token

\* The member rows of all three tiers.
Memberships == <<org_members, workspace_members, space_members>>

\* C14 (refused invites): an acceptInvite call whose token is unknown, whose
\* invite is not pending or whose invite is past expiresAt (marked expired by
\* the sweep or not) fails at once, with "Invite not found" for the unknown
\* token and the different "Invite has expired" for the lapsed pending
\* invite, creates no membership and leaves the invites as they are.
C14_RefusedInvites ==
    [][\A c \in CallIds :
          (acceptCalls[c].pc = "idle" /\ acceptCalls'[c].pc # "idle") =>
             LET found == getInviteByToken(acceptCalls'[c].token)
                 lapsed == \E i \in found : invites[i].expiresAt < now
                 notPending == \E i \in found : invites[i].status # "pending"
             IN  (found = {} \/ notPending \/ lapsed) =>
                    /\ acceptCalls'[c].pc = "failed"
                    /\ found = {} => acceptCalls'[c].error = InviteNotFound
                    /\ (lapsed /\ ~notPending) =>
                          /\ acceptCalls'[c].error = InviteHasExpired
                          /\ InviteHasExpired # InviteNotFound
                    /\ notPending => acceptCalls'[c].error = InviteNoLongerValid
                    /\ invites' = invites
                    /\ Memberships' = Memberships]_vars

\* C14 witness: one call failed on an unknown token, the other on the invite
\* that lapsed while the sweep never ran: the invite is still pending and
\* nobody became a member through it.
C14_Witness ==
    /\ acceptCalls["c1"].pc = "failed" /\ acceptCalls["c1"].error = InviteNotFound
    /\ acceptCalls["c2"].pc = "failed" /\ acceptCalls["c2"].error = InviteHasExpired
    /\ invites["inv1"].status = "pending"
    /\ invites["inv1"].expiresAt < now
    /\ workspace_members = <<>> /\ space_members = <<>>
    /\ \A k \in DOMAIN org_members : org_members[k] = "Admin"

\* C15 (pinned email): an acceptInvite call succeeds only for a user whose
\* email is the email of the invite.
C15_PinnedEmail ==
    \A c \in CallIds :
        acceptCalls[c].pc = "done" =>
            Email[acceptCalls[c].userId] = invites[acceptCalls[c].invite].email

C18_RetryCompletes ==
    \A d \in CallIds :
        (/\ acceptCalls[d].retryOf # Undefined
         /\ acceptCalls[acceptCalls[d].retryOf].error = UpdateError)
        => ~(acceptCalls[d].pc = "failed" /\ acceptCalls[d].error = DuplicateKey)

\* C30 (one pending invite per email, type and target): no two pending rows of
\* invites have the same email, type and targetId, whatever the interleaving
\* of createInvite calls and the order of rejectInvite, createInvite and
\* resendInvite; and the step of createInvite that finds a pending invite
\* fails and leaves the table as it is.
C30_OnePendingInvite ==
    [][/\ \A i, j \in DOMAIN invites' :
             (i # j /\ invites'[i].status = "pending" /\ invites'[j].status = "pending") =>
                <<invites'[i].email, invites'[i].type, invites'[i].targetId>> #
                   <<invites'[j].email, invites'[j].type, invites'[j].targetId>>
       /\ \A c \in CallIds :
             (createCalls[c].pc = "select" /\ createCalls'[c] # createCalls[c]
                /\ pendingFor(createCalls[c].invite) # {}) =>
                /\ createCalls'[c].error = InviteExists
                /\ invites' = invites]_vars

-----------------------------------------------------------------------------
(* Claims about the add-member operations (checked under SpecMember)       *)

\* C17 (idempotent membership): an add-member call completes without an
\* error, also when the row of its (entityId, userId) exists already.
C17_AddMemberIdempotent ==
    lastCheck.fn \in {"addOrgMember", "addWorkspaceMember", "addSpaceMember"}
    => lastCheck.result.error = Undefined

-----------------------------------------------------------------------------
(* Claims about codes (SpecCode) and team members (SpecTeam)               *)

\* C19 (code uniqueness): no code is held by rows of two of the tables
\* organizations, workspaces and projects (within one table the UNIQUE
\* constraint keeps the codes apart).
C19_CodeUniqueness ==
    \A t1, t2 \in CodeTables : t1 # t2 => codes[t1] \cap codes[t2] = {}

\* C20 (team member conflict): createTeamMember never returns the storage
\* layer's duplicate-key error; a (scopeId, email) that has a record is
\* refused with the already-exists error.
C20_ConflictIsDomainError ==
    teamCall.pc = "returned" => teamCall.error # DuplicateKey

====
